---- MODULE Spec2Model ----
(***************************************************************************)
(* Thumbnail resolution engine of sts-python: the storage scanner, the     *)
(* thumbnail service, the S3 storage client and the image processor, over  *)
(* an S3-like object store that other parties write to concurrently; the   *)
(* startup that creates the buckets and feeds the health check; the        *)
(* resolution of the settings; and the recorder of request statistics.     *)
(*                                                                         *)
(* Python values are modelled as follows.  An optional value (x | None) is *)
(* a sequence of length 0 or 1.  A str is a sequence of one-character      *)
(* strings, so that quoting and unquoting an etag are real operations.     *)
(* The bytes of an image file are a record describing the file.            *)
(***************************************************************************)
EXTENDS Integers, Sequences, FiniteSets, TLC

\* ------------------------------------------------------------------ bounds
MaxEnvSteps == 1      \* writes made to the store by parties other than the service
MaxRequests == 2      \* requests served in a run
MaxAliasRequests == 1 \* requests served in a run of the deployment with aliases
MaxChunks == 2        \* chunks in the body of a streamed object
MaxHealthCalls == 2   \* calls made on the health check service and its route
MaxResponses == 2     \* responses that pass the statistics middleware
MaxClientCalls == 2   \* calls made directly on the storage client
MaxSizeLen == 4       \* characters in a size string

\* ------------------------------------------------------- python primitives
None == <<>>
Some(x) == <<x>>
IsNone(o) == o = <<>>
Val(o) == o[1]

\* truthiness of a (str | None): None and "" are both falsy
Truthy(o) == ~IsNone(o) /\ Val(o) # <<>>

QUOTE == "\""

\* str.replace('"', '')
Unquote(s) == SelectSeq(s, LAMBDA ch : ch # QUOTE)

Digit(d) == CASE d = 0 -> "0" [] d = 1 -> "1" [] d = 2 -> "2" [] d = 3 -> "3"
              [] d = 4 -> "4" [] d = 5 -> "5" [] d = 6 -> "6" [] d = 7 -> "7"
              [] d = 8 -> "8" [] OTHER -> "9"

\* str(n) for a natural number n
RECURSIVE Str(_)
Str(n) == IF n < 10 THEN <<Digit(n)>> ELSE Str(n \div 10) \o <<Digit(n % 10)>>

\* ------------------------------------------------------------ configuration
\* the object name requests ask for
FILE_NAME == "icon.png"

Size(w, h) == [w |-> w, h |-> h]

\* BucketSettings; format is the target format _create_thumbnail_and_upload reads
\* from the settings, ImageFormat.NONE where the configuration names none
BucketSettings(size, life, source, alias) ==
    [size |-> size, life_time_days |-> life, source_bucket |-> source,
     alias |-> alias, format |-> "none"]

\* the bucket map of a deployment with one source and two thumbnail buckets
BucketsMap ==
    [source_bucket |-> "images",
     buckets |-> [b \in {"images", "thumbnail-small", "thumbnail-medium"} |->
        CASE b = "images" -> BucketSettings(Size(200, 200), 30, "images", None)
          [] b = "thumbnail-small" ->
                BucketSettings(Size(100, 100), 30, "images", Some("small"))
          [] OTHER ->
                BucketSettings(Size(300, 300), 30, "images", Some("medium"))],
     alias_map |-> [a \in {"small", "medium"} |->
        IF a = "small" THEN "thumbnail-small" ELSE "thumbnail-medium"],
     all_source_buckets |-> {"images"}]

\* AppSettings: the default source bucket (or None), the default size and the
\* configured buckets in the order of the configuration (a dict keeps its order)
AppSettings(source_bucket, size, buckets) ==
    [source_bucket |-> source_bucket, size |-> size, buckets |-> buckets]

BucketEntry(name, cfg) == [name |-> name, cfg |-> cfg]

\* the deployment of the scanner tests, as settings
SettingsImages ==
    AppSettings(Some("images"), Size(200, 200),
        << BucketEntry("thumbnail-small",
                       BucketSettings(Size(100, 100), 30, "images", Some("small"))),
           BucketEntry("thumbnail-medium",
                       BucketSettings(Size(300, 300), 30, "images", Some("medium"))) >>)

\* the deployment of the settings tests: thumbnail buckets over three sources
SettingsPictures ==
    AppSettings(Some("pictures"), Size(100, 100),
        << BucketEntry("thumbnail-small",
                       BucketSettings(Size(300, 300), 30, "pictures", Some("small"))),
           BucketEntry("thumbnail-medium",
                       BucketSettings(Size(500, 500), 30, "images", Some("medium"))),
           BucketEntry("thumbnail",
                       BucketSettings(Size(100, 100), 10, "pictures", None)),
           BucketEntry("pictures-small",
                       BucketSettings(Size(50, 50), 30, "items", Some("p"))) >>)

\* the last of a set of indices of a sequence, 0 when there is none
LastIndex(hits) ==
    IF hits = {} THEN 0 ELSE CHOOSE i \in hits : \A j \in hits : j <= i

\* a copy of _get_buckets_map that maps every alias to the first bucket
GetBucketsMap_FirstBucket(settings) ==
    LET source_buckets == [i \in 1 .. Len(settings.buckets) |->
                              settings.buckets[i].cfg.source_bucket]
        has_default == ~IsNone(settings.source_bucket) /\ Val(settings.source_bucket) # ""
        base_source_bucket == IF has_default
                              THEN Val(settings.source_bucket) ELSE source_buckets[1]
        source_bucket_cfg == BucketSettings(settings.size, 30, base_source_bucket, None)
        names == {settings.buckets[i].name : i \in 1 .. Len(settings.buckets)}
        aliases == {Val(settings.buckets[i].cfg.alias) :
                       i \in {j \in 1 .. Len(settings.buckets) :
                                 /\ ~IsNone(settings.buckets[j].cfg.alias)
                                 /\ Val(settings.buckets[j].cfg.alias) # ""}}
    IN [source_bucket |-> base_source_bucket,
        buckets |-> [b \in names \cup {base_source_bucket} |->
            IF b = base_source_bucket THEN source_bucket_cfg
            ELSE settings.buckets[LastIndex({i \in 1 .. Len(settings.buckets) :
                                            settings.buckets[i].name = b})].cfg],
        alias_map |-> [a \in aliases |-> settings.buckets[1].name],
        all_source_buckets |->
            {source_buckets[i] : i \in 1 .. Len(source_buckets)}
              \cup (IF has_default THEN {} ELSE {base_source_bucket})]

\* _get_buckets_map; settings.source_bucket or a configured bucket is present
GetBucketsMap(settings) ==
    LET source_buckets == [i \in 1 .. Len(settings.buckets) |->
                              settings.buckets[i].cfg.source_bucket]
        has_default == ~IsNone(settings.source_bucket) /\ Val(settings.source_bucket) # ""
        base_source_bucket == IF has_default
                              THEN Val(settings.source_bucket) ELSE source_buckets[1]
        source_bucket_cfg == BucketSettings(settings.size, 30, base_source_bucket, None)
        names == {settings.buckets[i].name : i \in 1 .. Len(settings.buckets)}
        aliases == {Val(settings.buckets[i].cfg.alias) :
                       i \in {j \in 1 .. Len(settings.buckets) :
                                 /\ ~IsNone(settings.buckets[j].cfg.alias)
                                 /\ Val(settings.buckets[j].cfg.alias) # ""}}
    IN [source_bucket |-> base_source_bucket,
        buckets |-> [b \in names \cup {base_source_bucket} |->
            IF b = base_source_bucket THEN source_bucket_cfg
            ELSE settings.buckets[LastIndex({i \in 1 .. Len(settings.buckets) :
                                            settings.buckets[i].name = b})].cfg],
        alias_map |-> [a \in aliases |->
            settings.buckets[LastIndex({i \in 1 .. Len(settings.buckets) :
                                       settings.buckets[i].cfg.alias = Some(a)})].name],
        all_source_buckets |->
            {source_buckets[i] : i \in 1 .. Len(source_buckets)}
              \cup (IF has_default THEN {} ELSE {base_source_bucket})]

\* buckets a client may name in a URL; "images2" is not configured
RequestBuckets == {"images", "thumbnail-small", "thumbnail-medium", "images2"}

\* a configured thumbnail bucket: one that is not its own source
Derived(bucket) ==
    /\ bucket \in DOMAIN BucketsMap.buckets
    /\ bucket # BucketsMap.buckets[bucket].source_bucket

\* buckets that exist in the store
StoreBuckets == DOMAIN BucketsMap.buckets

\* ------------------------------------------------------------- image files
\* The bytes of a file: fmt "" is a file that is no image; intact = FALSE is an
\* image whose header parses and whose pixel data is cut short.
Image(id, fmt, mode, w, h, intact) ==
    [id |-> id, fmt |-> fmt, mode |-> mode, w |-> w, h |-> h, intact |-> intact]

ImgA == Image("a", "PNG", "RGBA", 400, 400, TRUE)
ImgB == Image("b", "PNG", "RGBA", 400, 200, TRUE)
ImgT == Image("t", "PNG", "RGBA", 400, 400, FALSE)
ImgX == Image("x", "", "", 0, 0, TRUE)

\* what other parties upload into the source bucket
SourceFiles == {ImgA, ImgB, ImgT, ImgX}

\* number of bytes of a file (content.tell() at the end of the buffer)
ByteLen(data) == data.w + data.h + 8

\* the store's etag of an object: a digest of its bytes, as hex characters
Md5(data) ==
    <<data.id, data.fmt, data.mode>> \o Str(data.w) \o <<"x">> \o Str(data.h)

\* ---------------------------------------------------------- image processor
KnownFormats == {"PNG", "JPEG"}

\* Image.MIME.get(format)
MIME(fmt) == CASE fmt = "PNG" -> Some("image/png")
               [] fmt = "JPEG" -> Some("image/jpeg")
               [] OTHER -> None

\* str.upper() on the names of ImageFormat
Upper(f) == CASE f = "png" -> "PNG" [] f = "jpeg" -> "JPEG" [] OTHER -> "NONE"

\* _format_modes
FormatModes(f) == IF f = "jpeg" THEN "RGB" ELSE "P"

\* _try_convert_image: convert the colour mode, keep the image when it has it
TryConvertImage(im, new_mode) ==
    IF im.mode = new_mode THEN im ELSE [im EXCEPT !.mode = new_mode]

Max(a, b) == IF a >= b THEN a ELSE b

\* Image.thumbnail: fit inside (w, h) keeping the aspect ratio, never upscale
Thumbnail(im, w, h) ==
    IF w >= im.w /\ h >= im.h THEN im
    ELSE IF w * im.h >= im.w * h
         THEN [im EXCEPT !.w = Max(1, (h * im.w) \div im.h), !.h = h]
         ELSE [im EXCEPT !.w = w, !.h = Max(1, (w * im.h) \div im.w)]

\* Image.save refuses modes the target format cannot hold
SaveFails(im) == im.fmt = "JPEG" /\ im.mode \in {"RGBA", "P"}

ImageData(content_type, error, data) ==
    [raised |-> FALSE, content_type |-> content_type, error |-> error, data |-> data]

\* the exception handler of resize_image reads mime_type, which is assigned
\* only after Image.open returned: when open fails the handler itself raises
ResizeRaised ==
    [raised |-> TRUE, content_type |-> None, error |-> Some("UnboundLocalError"),
     data |-> None]

\* resize_image without the error branch of thumbnail(): returns the file as data
ResizeImage_NoError(data, width, height, image_format) ==
    IF data.fmt \notin KnownFormats
    THEN ResizeRaised
    ELSE ImageData(MIME(data.fmt), None, Some(Thumbnail(data, width, height)))

ResizeImage(data, width, height, image_format) ==
    IF data.fmt \notin KnownFormats
    THEN ResizeRaised
    ELSE LET mime_type == MIME(data.fmt) IN
         IF ~data.intact
         THEN ImageData(mime_type, Some("OSError"), None)
         ELSE LET im == Thumbnail(data, width, height)
                  out == IF image_format # "none"
                         THEN [TryConvertImage(im, FormatModes(image_format))
                                  EXCEPT !.fmt = Upper(image_format)]
                         ELSE im
                  mime == IF image_format # "none"
                          THEN MIME(Upper(image_format)) ELSE mime_type
              IN IF SaveFails(out)
                 THEN ImageData(mime, Some("OSError"), None)
                 ELSE ImageData(mime, None, Some(out))

\* ------------------------------------------------------------ object store
\* An object of the store: its bytes, its content type and the user metadata
\* x-amz-meta-parent-etag (None when the object carries none).
StoredObject(data, content_type, parent_etag) ==
    [data |-> data, content_type |-> content_type, parent_etag |-> parent_etag]

StoreKeys == StoreBuckets \X {FILE_NAME}

\* the etag header the store sends: the digest in double quotes
EtagHeader(obj) == <<QUOTE>> \o Md5(obj.data) \o <<QUOTE>>

\* Minio.stat_object: the object's attributes, etag unquoted; None is S3Error
StatObject(st, bucket, file_name) ==
    IF <<bucket, file_name>> \notin DOMAIN st \/ IsNone(st[<<bucket, file_name>>])
    THEN None
    ELSE LET obj == Val(st[<<bucket, file_name>>]) IN
         Some([size |-> ByteLen(obj.data), content_type |-> obj.content_type,
               etag |-> Unquote(EtagHeader(obj)), metadata |-> obj.parent_etag])

\* Minio.get_object: the response headers and the body; None is S3Error
GetObject(st, bucket, file_name) ==
    IF <<bucket, file_name>> \notin DOMAIN st \/ IsNone(st[<<bucket, file_name>>])
    THEN None
    ELSE LET obj == Val(st[<<bucket, file_name>>]) IN
         Some([content_length |-> Str(ByteLen(obj.data)),
               content_type |-> obj.content_type,
               etag |-> EtagHeader(obj), body |-> obj.data])

StorageFileItem(bucket, file_name, size, content_type, etag, parent_etag) ==
    [bucket |-> bucket, file_name |-> file_name, size |-> size,
     content_type |-> content_type, etag |-> etag, parent_etag |-> parent_etag]

\* S3StorageClient.get_file_stat
GetFileStat(st, bucket, file_name) ==
    LET object_stat == StatObject(st, bucket, file_name) IN
    IF IsNone(object_stat) THEN None
    ELSE Some(StorageFileItem(bucket, file_name, Val(object_stat).size,
                              Val(object_stat).content_type, Val(object_stat).etag,
                              Val(object_stat).metadata))

\* _StorageResponse that keeps the etag header as the store sent it
StorageResponse_Quoted(http_response) ==
    [content_length |-> http_response.content_length,
     content_type |-> http_response.content_type,
     etag |-> http_response.etag, body |-> http_response.body]

\* _StorageResponse.__init__
StorageResponse(http_response) ==
    [content_length |-> http_response.content_length,
     content_type |-> http_response.content_type,
     etag |-> Unquote(http_response.etag), body |-> http_response.body]

\* S3StorageClient.open_stream
OpenStream(st, bucket, file_name) ==
    LET response == GetObject(st, bucket, file_name) IN
    IF IsNone(response) THEN None ELSE Some(StorageResponse(Val(response)))

\* S3StorageClient.load_file
LoadFile(st, bucket, file_name) ==
    LET response == GetObject(st, bucket, file_name) IN
    IF IsNone(response) THEN None ELSE Some(Val(response).body)

\* put_file of the revision that stored no metadata with the object
PutObject_NoMeta(st, bucket, file_name, content, content_type, parent_etag) ==
    [st EXCEPT ![<<bucket, file_name>>] = Some(StoredObject(content, content_type, None))]

\* a put_file that records the etag of the uploaded object itself as its parent
PutObject_OwnEtag(st, bucket, file_name, content, content_type, parent_etag) ==
    [st EXCEPT ![<<bucket, file_name>>] =
        Some(StoredObject(content, content_type, Some(Md5(content))))]

\* S3StorageClient.put_file, its effect on the store
PutObject(st, bucket, file_name, content, content_type, parent_etag) ==
    LET metadata == IF Truthy(parent_etag) THEN parent_etag ELSE None IN
    [st EXCEPT ![<<bucket, file_name>>] =
        Some(StoredObject(content, content_type, metadata))]

\* S3StorageClient.put_file, the item it returns
PutFileResult(bucket, file_name, content, content_type, parent_etag) ==
    StorageFileItem(bucket, file_name, ByteLen(content), content_type,
                    Unquote(<<QUOTE>> \o Md5(content) \o <<QUOTE>>), parent_etag)

\* ---------------------------------------------------------- storage scanner
ScanResult(status, source_file_stat, file_stat, bucket_settings) ==
    [status |-> status, source_file_stat |-> source_file_stat,
     file_stat |-> file_stat, bucket_settings |-> bucket_settings]

\* a lookup that knows the default source bucket only
BucketSettingsOf_SourceOnly(buckets_map, bucket) ==
    IF bucket = buckets_map.source_bucket THEN Some(buckets_map.buckets[bucket])
    ELSE None

\* FileStorageScannerImp._get_bucket_settings of a scanner built over buckets_map
BucketSettingsOf(buckets_map, bucket) ==
    IF bucket = buckets_map.source_bucket THEN Some(buckets_map.buckets[bucket])
    ELSE IF bucket \in DOMAIN buckets_map.buckets THEN Some(buckets_map.buckets[bucket])
    ELSE None

\* _get_bucket_settings of the scanner of the deployment BucketsMap
GetBucketSettings(bucket) == BucketSettingsOf(BucketsMap, bucket)

\* scan_file stats the source in the derived bucket itself
SourceKey_Derived(bucket, bucket_settings) == bucket

\* the bucket scan_file stats the source object in
SourceKey(bucket, bucket_settings) == bucket_settings.source_bucket

\* a freshness test that accepts any stored derivative
IsFresh_AnyThumb(thumbnail_stat, source_file_stat) == ~IsNone(thumbnail_stat)

\* a freshness test that accepts a derivative without a parent etag
IsFresh_NoParentOk(thumbnail_stat, source_file_stat) ==
    /\ ~IsNone(thumbnail_stat)
    /\ \/ IsNone(Val(thumbnail_stat).parent_etag)
       \/ Val(thumbnail_stat).parent_etag = Some(Val(source_file_stat).etag)

\* a freshness test that accepts a derivative bound to any parent etag
IsFresh_AnyParent(thumbnail_stat, source_file_stat) ==
    ~IsNone(thumbnail_stat) /\ ~IsNone(Val(thumbnail_stat).parent_etag)

\* the freshness test of scan_file
IsFresh(thumbnail_stat, source_file_stat) ==
    /\ ~IsNone(thumbnail_stat)
    /\ Val(thumbnail_stat).parent_etag = Some(Val(source_file_stat).etag)

\* a scan_file whose CREATE_NEW result leaves out the bucket settings
ScanFileOf_NoSettings(buckets_map, bucket, source_file_stat, thumbnail_stat) ==
    LET bucket_settings == BucketSettingsOf(buckets_map, bucket) IN
    IF IsNone(bucket_settings)
    THEN ScanResult("BUCKET_NOT_FOUND", None, None, None)
    ELSE IF IsNone(source_file_stat)
    THEN ScanResult("SOURCE_FILE_NOT_FOUND", None, None, None)
    ELSE IF bucket = Val(bucket_settings).source_bucket
    THEN ScanResult("USE_SOURCE_FILE", source_file_stat, None, None)
    ELSE IF IsFresh(thumbnail_stat, source_file_stat)
    THEN ScanResult("FILE_FOUND", source_file_stat, thumbnail_stat, None)
    ELSE ScanResult("CREATE_NEW", source_file_stat, None, None)

\* FileStorageScannerImp.scan_file as a function of what its two stat calls
\* returned; thumbnail_stat is read only when the first three returns are passed
ScanFileOf(buckets_map, bucket, source_file_stat, thumbnail_stat) ==
    LET bucket_settings == BucketSettingsOf(buckets_map, bucket) IN
    IF IsNone(bucket_settings)
    THEN ScanResult("BUCKET_NOT_FOUND", None, None, None)
    ELSE IF IsNone(source_file_stat)
    THEN ScanResult("SOURCE_FILE_NOT_FOUND", None, None, None)
    ELSE IF bucket = Val(bucket_settings).source_bucket
    THEN ScanResult("USE_SOURCE_FILE", source_file_stat, None, None)
    ELSE IF IsFresh(thumbnail_stat, source_file_stat)
    THEN ScanResult("FILE_FOUND", source_file_stat, thumbnail_stat, None)
    ELSE ScanResult("CREATE_NEW", source_file_stat, None, bucket_settings)

\* scan_file of the scanner of the deployment BucketsMap
ScanFile(bucket, source_file_stat, thumbnail_stat) ==
    ScanFileOf(BucketsMap, bucket, source_file_stat, thumbnail_stat)

\* -------------------------------------------------------- thumbnail service
Response(status_code, etag, content_length, media_type, json, stream) ==
    [status_code |-> status_code, etag |-> etag, content_length |-> content_length,
     media_type |-> media_type, json |-> json, stream |-> stream]

NOT_FOUND_RESPONSE ==
    Response(404, None, None, Some("application/json"), Some("File not found"), None)

\* a conditional test that accepts any If-None-Match
NotModified_Any(file_storage_item, etag) == Truthy(etag)

\* the conditional test of _get_file_response
NotModified(file_storage_item, etag) ==
    Truthy(etag) /\ file_storage_item.etag = Val(etag)

\* _get_file_response, the 304 it returns without calling the store
NotModifiedResponse(etag) == Response(304, etag, None, None, None, None)

\* a response that sends the object resized to the default size
FileResponse_Resized(object_stream) ==
    IF IsNone(object_stream) THEN NOT_FOUND_RESPONSE
    ELSE Response(200, Some(Val(object_stream).etag),
                  Some(Val(object_stream).content_length),
                  Some(Val(object_stream).content_type), None,
                  Some(Thumbnail(Val(object_stream).body, 200, 200)))

\* _get_file_response, after open_stream returned
FileResponse(object_stream) ==
    IF IsNone(object_stream) THEN NOT_FOUND_RESPONSE
    ELSE Response(200, Some(Val(object_stream).etag),
                  Some(Val(object_stream).content_length),
                  Some(Val(object_stream).content_type), None,
                  Some(Val(object_stream).body))

\* the response of the revision that sent the etag as Content-Length
UploadResponse_EtagAsLength(put_result, thumbnail) ==
    Response(200, Some(put_result.etag), Some(put_result.etag),
             thumbnail.content_type, None, thumbnail.data)

\* _create_thumbnail_and_upload, the response built from the put result
UploadResponse(put_result, thumbnail) ==
    Response(200, Some(put_result.etag), Some(Str(put_result.size)),
             thumbnail.content_type, None, thumbnail.data)

\* the item get_thumbnail hands to _get_file_response
ServedItem(scan) ==
    IF scan.status = "USE_SOURCE_FILE" THEN Val(scan.source_file_stat)
    ELSE Val(scan.file_stat)

\* ------------------------------------------- a request served without pause
\* The handlers as functions of the store they start from: what is returned, the
\* store left behind and the store calls made, when no other party writes to the
\* store while the request is served.
\* a call of a method of the storage client
Call(op, bucket, file_name) == [op |-> op, bucket |-> bucket, file_name |-> file_name]

Run(response, st, calls) == [response |-> response, store |-> st, calls |-> calls]

\* the response the framework gives for an exception leaving a handler
SERVER_ERROR == Response(500, None, None, None, None, None)

\* ThumbnailService._get_file_response
GetFileResponse(st, file_storage_item, etag) ==
    IF NotModified(file_storage_item, etag)
    THEN Run(NotModifiedResponse(etag), st, <<>>)
    ELSE Run(FileResponse(OpenStream(st, file_storage_item.bucket,
                                     file_storage_item.file_name)), st,
             <<Call("open_stream", file_storage_item.bucket, file_storage_item.file_name)>>)

\* ThumbnailService._create_thumbnail_and_upload
CreateThumbnailAndUpload(st, source_file_stat, bucket_settings, bucket) ==
    LET image_data == LoadFile(st, source_file_stat.bucket, source_file_stat.file_name)
        loaded == <<Call("load_file", source_file_stat.bucket, source_file_stat.file_name)>>
    IN IF IsNone(image_data) THEN Run(NOT_FOUND_RESPONSE, st, loaded)
       ELSE LET thumbnail == ResizeImage(Val(image_data), bucket_settings.size.w,
                                         bucket_settings.size.h, bucket_settings.format)
            IN IF thumbnail.raised THEN Run(SERVER_ERROR, st, loaded)
               ELSE IF ~IsNone(thumbnail.error) \/ IsNone(thumbnail.data)
               THEN Run(NOT_FOUND_RESPONSE, st, loaded)
               ELSE LET parent_etag == Some(source_file_stat.etag)
                        put_result == PutFileResult(bucket, source_file_stat.file_name,
                                          Val(thumbnail.data), Val(thumbnail.content_type),
                                          parent_etag)
                    IN Run(UploadResponse(put_result, thumbnail),
                           PutObject(st, bucket, source_file_stat.file_name,
                                     Val(thumbnail.data), Val(thumbnail.content_type),
                                     parent_etag),
                           Append(loaded, [op |-> "put_file", bucket |-> bucket,
                                           file_name |-> source_file_stat.file_name,
                                           parent_etag |-> parent_etag]))

\* the stat calls scan_file makes before it returns
ScanCalls(buckets_map, bucket, file_name, scan) ==
    IF scan.status = "BUCKET_NOT_FOUND" THEN <<>>
    ELSE LET source_bucket == Val(BucketSettingsOf(buckets_map, bucket)).source_bucket IN
         IF scan.status \in {"SOURCE_FILE_NOT_FOUND", "USE_SOURCE_FILE"}
         THEN <<Call("get_file_stat", source_bucket, file_name)>>
         ELSE <<Call("get_file_stat", source_bucket, file_name),
                Call("get_file_stat", bucket, file_name)>>

\* ThumbnailService.get_thumbnail over a scanner built over buckets_map
GetThumbnail(buckets_map, st, bucket, file_name, etag) ==
    LET bucket_settings == BucketSettingsOf(buckets_map, bucket)
        source_file_stat == IF IsNone(bucket_settings) THEN None
                            ELSE GetFileStat(st, SourceKey(bucket, Val(bucket_settings)),
                                             file_name)
        scan == ScanFileOf(buckets_map, bucket, source_file_stat,
                           GetFileStat(st, bucket, file_name))
        run == CASE scan.status \in {"BUCKET_NOT_FOUND", "SOURCE_FILE_NOT_FOUND"} ->
                      Run(NOT_FOUND_RESPONSE, st, <<>>)
                 [] scan.status = "USE_SOURCE_FILE" ->
                      GetFileResponse(st, Val(scan.source_file_stat), etag)
                 [] scan.status = "FILE_FOUND" ->
                      GetFileResponse(st, Val(scan.file_stat), etag)
                 [] OTHER ->
                      CreateThumbnailAndUpload(st, Val(scan.source_file_stat),
                                               Val(scan.bucket_settings), bucket)
    IN [run EXCEPT !.calls = ScanCalls(buckets_map, bucket, file_name, scan) \o @]

\* an alias lookup that ignores the alias and answers the source bucket
FindBucketByAlias_Source(buckets_map, source_bucket, alias) ==
    IF source_bucket \notin buckets_map.all_source_buckets THEN None
    ELSE Some(source_bucket)

\* FileStorageScannerImp.find_bucket_by_alias
FindBucketByAlias(buckets_map, source_bucket, alias) ==
    IF source_bucket \notin buckets_map.all_source_buckets THEN None
    ELSE IF alias \in DOMAIN buckets_map.alias_map
         THEN Some(buckets_map.alias_map[alias])
         ELSE Some(source_bucket)

\* ThumbnailService.get_thumbnail_by_alias
GetThumbnailByAlias(buckets_map, st, source_bucket, file_name, alias, etag) ==
    LET bucket == FindBucketByAlias(buckets_map, source_bucket, alias) IN
    IF ~IsNone(bucket)
    THEN GetThumbnail(buckets_map, st, Val(bucket), file_name, etag)
    ELSE Run(NOT_FOUND_RESPONSE, st, <<>>)

\* ------------------------------------------------------------------- state
VARIABLES
    store,    \* the object store: StoreKeys -> (object | None)
    req,      \* the request handlers: position, arguments, locals, response
    obs,      \* per request: what an observer of the store recorded about it
    hist,     \* the latest completed response and what happened since
    done,     \* the request that completed last, with what was observed of it
    env,      \* number of writes made by other parties
    started   \* number of requests received

vars == <<store, req, obs, hist, done, env, started>>

\* handler slots; under Spec one request is served at a time, in the lowest
\* idle slot, while other parties write to the store between its store calls
Requests == {1, 2}

NoScan == ScanResult("NONE", None, None, None)

IdleRequest ==
    [pc |-> "idle", bucket |-> "", etag |-> None, scan |-> NoScan,
     thumbnail |-> None, response |-> None, calls |-> <<>>]

IdleObs ==
    [dirty |-> FALSE, after_overwrite |-> FALSE, prev |-> None,
     prev_changed |-> FALSE, store0 |-> None, src_seen |-> None, seen |-> None,
     loaded |-> None, served |-> None, src_at_resp |-> None, wrote |-> FALSE,
     written |-> {}]

InFlight(r) ==
    req[r].pc \in {"source_stat", "thumbnail_stat", "open_stream", "load_file", "put_file"}


\* the unquoted etag of the object at a key, None when there is none
EtagAt(st, bucket) ==
    LET s == StatObject(st, bucket, FILE_NAME) IN
    IF IsNone(s) THEN None ELSE Some(Val(s).etag)

\* the parent etag recorded on the object at a key
ParentAt(st, bucket) ==
    LET s == StatObject(st, bucket, FILE_NAME) IN
    IF IsNone(s) THEN None ELSE Val(s).metadata

\* a thumbnail written by the revision of the service that stored no parent etag
LegacyThumbnail == StoredObject(Thumbnail(ImgA, 100, 100), "image/png", None)

Init ==
    /\ store \in {[k \in StoreKeys |->
                     IF k[1] = "images" THEN Some(StoredObject(ImgA, "image/png", None))
                     ELSE IF k[1] = "thumbnail-small" THEN t ELSE None]
                  : t \in {None, Some(LegacyThumbnail)}}
    /\ req = [r \in Requests |-> IdleRequest]
    /\ obs = [r \in Requests |-> IdleObs]
    /\ hist = [last |-> None, changed |-> FALSE, overwritten |-> FALSE]
    /\ done = [rq |-> IdleRequest, ob |-> IdleObs]
    /\ env = 0
    /\ started = 0

\* a write to the store by `actor` (0: another party) is seen by the others
Disturbed(actor) ==
    [q \in Requests |->
        IF InFlight(q) /\ q # actor THEN [obs[q] EXCEPT !.dirty = TRUE] ELSE obs[q]]

\* the request's response leaves: record what it served against the store now
Observe(o, r, served, st) ==
    [o[r] EXCEPT !.served = served, !.wrote = (st # store),
                 !.written = {k \in DOMAIN st : st[k] # store[k]}, !.src_at_resp =
        EtagAt(st, IF IsNone(GetBucketSettings(req[r].bucket)) THEN req[r].bucket
                   ELSE Val(GetBucketSettings(req[r].bucket)).source_bucket)]

Completed(r, response, dirty) ==
    [last |-> Some([bucket |-> req[r].bucket, status_code |-> response.status_code,
                    etag |-> response.etag, dirty |-> dirty,
                    created |-> (req[r].pc = "put_file")]),
     changed |-> FALSE, overwritten |-> hist.overwritten]

\* etags a client may send in If-None-Match: none, an empty header, the etag of
\* an object in the store, or the etag of the latest response
InmChoices ==
    {None, Some(<<>>)}
      \cup {EtagAt(store, b) : b \in StoreBuckets}
      \cup (IF IsNone(hist.last) THEN {} ELSE {Val(hist.last).etag})

\* ----------------------------------------------------------------- actions
\* the handler leaves with a response
Finish(r, rq, response, served, st, o) ==
    /\ done' = [rq |-> [rq EXCEPT !.pc = "done", !.response = Some(response)],
                ob |-> Observe(o, r, served, st)]
    /\ req' = [req EXCEPT ![r] = IdleRequest]
    /\ obs' = [o EXCEPT ![r] = IdleObs]
    /\ hist' = Completed(r, response, o[r].dirty)

\* the handler leaves with an exception, which the framework answers with 500
Raise(r, rq, st, o) ==
    /\ done' = [rq |-> [rq EXCEPT !.pc = "raised"], ob |-> Observe(o, r, None, st)]
    /\ req' = [req EXCEPT ![r] = IdleRequest]
    /\ obs' = [o EXCEPT ![r] = IdleObs]
    /\ hist' = Completed(r, Response(500, None, None, None, None, None), o[r].dirty)

\* get_thumbnail is called; scan_file looks the bucket up
Start(r, bucket, etag) ==
    /\ req[r].pc = "idle"
    /\ \A q \in Requests : q < r => req[q].pc # "idle"
    /\ started < MaxRequests
    /\ started' = started + 1
    /\ LET rq == [req[r] EXCEPT !.bucket = bucket, !.etag = etag]
           o  == [obs EXCEPT ![r] =
                    [IdleObs EXCEPT !.after_overwrite =
                                       hist.overwritten /\ \A q \in Requests : ~InFlight(q),
                                    !.prev = hist.last,
                                    !.prev_changed = hist.changed,
                                    !.store0 = Some(store)]]
       IN IF IsNone(GetBucketSettings(bucket))
          THEN /\ done' = [rq |-> [rq EXCEPT !.pc = "done",
                                              !.scan = ScanFile(bucket, None, None),
                                              !.response = Some(NOT_FOUND_RESPONSE)],
                           ob |-> o[r]]
               /\ hist' = [last |-> Some([bucket |-> bucket, status_code |-> 404,
                                          etag |-> None, dirty |-> FALSE,
                                          created |-> FALSE]),
                           changed |-> FALSE, overwritten |-> FALSE]
               /\ UNCHANGED <<req, obs>>
          ELSE /\ req' = [req EXCEPT ![r] = [rq EXCEPT !.pc = "source_stat"]]
               /\ obs' = o
               /\ hist' = [hist EXCEPT !.overwritten = FALSE]
               /\ done' = [rq |-> IdleRequest, ob |-> IdleObs]
    /\ UNCHANGED <<store, env>>

\* get_thumbnail dispatches on a scan that ended USE_SOURCE_FILE or FILE_FOUND
ServeExisting(r, rq, served, o) ==
    IF NotModified(ServedItem(rq.scan), rq.etag)
    THEN Finish(r, rq, NotModifiedResponse(rq.etag), served, store, o)
    ELSE /\ req' = [req EXCEPT ![r] = [rq EXCEPT !.pc = "open_stream"]]
         /\ obs' = o
         /\ UNCHANGED <<hist, done>>

\* scan_file: the stat of the source object, and what follows without a store call
SourceStat(r) ==
    /\ req[r].pc = "source_stat"
    /\ LET bucket_settings == Val(GetBucketSettings(req[r].bucket))
           source_bucket == SourceKey(req[r].bucket, bucket_settings)
           source_file_stat == GetFileStat(store, source_bucket, FILE_NAME)
           scan == ScanFile(req[r].bucket, source_file_stat, None)
           rq == [req[r] EXCEPT !.calls = Append(@,
                     Call("get_file_stat", source_bucket, FILE_NAME))]
           o == [obs EXCEPT ![r].src_seen =
                    Some(store[<<bucket_settings.source_bucket, FILE_NAME>>])]
       IN CASE scan.status = "SOURCE_FILE_NOT_FOUND" ->
                 Finish(r, [rq EXCEPT !.scan = scan], NOT_FOUND_RESPONSE, None, store, o)
            [] scan.status = "USE_SOURCE_FILE" ->
                 ServeExisting(r, [rq EXCEPT !.scan = scan], None, o)
            [] OTHER ->
                 /\ req' = [req EXCEPT ![r] =
                       [rq EXCEPT !.pc = "thumbnail_stat",
                                  !.scan = ScanResult("NONE", source_file_stat, None, None)]]
                 /\ obs' = o
                 /\ UNCHANGED <<hist, done>>
    /\ UNCHANGED <<store, env, started>>

\* scan_file: the stat of the derivative, and what follows without a store call
ThumbnailStat(r) ==
    /\ req[r].pc = "thumbnail_stat"
    /\ LET thumbnail_stat == GetFileStat(store, req[r].bucket, FILE_NAME)
           scan == ScanFile(req[r].bucket, req[r].scan.source_file_stat, thumbnail_stat)
           rq == [req[r] EXCEPT !.scan = scan, !.calls = Append(@,
                     Call("get_file_stat", req[r].bucket, FILE_NAME))]
           seen == Some(store[<<req[r].bucket, FILE_NAME>>])
       IN IF scan.status = "FILE_FOUND"
          THEN ServeExisting(r, rq, Some(ParentAt(store, req[r].bucket)),
                             [obs EXCEPT ![r].seen = seen])
          ELSE /\ req' = [req EXCEPT ![r] = [rq EXCEPT !.pc = "load_file"]]
               /\ obs' = [obs EXCEPT ![r].seen = seen]
               /\ UNCHANGED <<hist, done>>
    /\ UNCHANGED <<store, env, started>>

\* a _get_file_response that answers from the item the scan found: its etag
\* and size in the headers, and a 200 also when the stream cannot be opened
OpenStreamStep_StatHeaders(r) ==
    /\ req[r].pc = "open_stream"
    /\ LET item == ServedItem(req[r].scan)
           object_stream == OpenStream(store, item.bucket, item.file_name)
           rq == [req[r] EXCEPT !.calls = Append(@,
                     Call("open_stream", item.bucket, item.file_name))]
           body == IF IsNone(object_stream) THEN None
                   ELSE Some(Val(object_stream).body)
       IN Finish(r, rq, Response(200, Some(item.etag), Some(Str(item.size)),
                                 Some(item.content_type), None, body),
                 None, store, obs)
    /\ UNCHANGED <<store, env, started>>

\* _get_file_response: open_stream and the response built from it
OpenStreamStep(r) ==
    /\ req[r].pc = "open_stream"
    /\ LET item == ServedItem(req[r].scan)
           object_stream == OpenStream(store, item.bucket, item.file_name)
           rq == [req[r] EXCEPT !.calls = Append(@,
                     Call("open_stream", item.bucket, item.file_name))]
           served == IF IsNone(object_stream) \/ req[r].scan.status # "FILE_FOUND"
                     THEN None ELSE Some(ParentAt(store, item.bucket))
       IN Finish(r, rq, FileResponse(object_stream), served, store, obs)
    /\ UNCHANGED <<store, env, started>>

\* _create_thumbnail_and_upload: load_file, then resize_image in memory
LoadFileStep(r) ==
    /\ req[r].pc = "load_file"
    /\ LET source_file_stat == Val(req[r].scan.source_file_stat)
           bucket_settings == Val(req[r].scan.bucket_settings)
           image_data == LoadFile(store, source_file_stat.bucket, source_file_stat.file_name)
           rq == [req[r] EXCEPT !.calls = Append(@,
                     Call("load_file", source_file_stat.bucket, source_file_stat.file_name))]
           o == [obs EXCEPT ![r].loaded = Some(image_data)]
       IN IF IsNone(image_data)
          THEN Finish(r, rq, NOT_FOUND_RESPONSE, None, store, o)
          ELSE LET thumbnail == ResizeImage(Val(image_data), bucket_settings.size.w,
                                            bucket_settings.size.h, bucket_settings.format)
               IN IF thumbnail.raised
                  THEN Raise(r, [rq EXCEPT !.thumbnail = Some(thumbnail)], store, o)
                  ELSE IF ~IsNone(thumbnail.error) \/ IsNone(thumbnail.data)
                  THEN Finish(r, [rq EXCEPT !.thumbnail = Some(thumbnail)],
                              NOT_FOUND_RESPONSE, None, store, o)
                  ELSE /\ req' = [req EXCEPT ![r] =
                             [rq EXCEPT !.pc = "put_file", !.thumbnail = Some(thumbnail)]]
                       /\ obs' = o
                       /\ UNCHANGED <<hist, done>>
    /\ UNCHANGED <<store, env, started>>

\* a _create_thumbnail_and_upload that puts the thumbnail into the bucket of
\* the source file
PutFileStep_IntoSource(r) ==
    /\ req[r].pc = "put_file"
    /\ LET source_file_stat == Val(req[r].scan.source_file_stat)
           thumbnail == Val(req[r].thumbnail)
           content_type == Val(thumbnail.content_type)
           parent_etag == Some(source_file_stat.etag)
           put_result == PutFileResult(source_file_stat.bucket, source_file_stat.file_name,
                                       Val(thumbnail.data), content_type, parent_etag)
           st == PutObject(store, source_file_stat.bucket, source_file_stat.file_name,
                           Val(thumbnail.data), content_type, parent_etag)
           rq == [req[r] EXCEPT !.calls = Append(@,
                     [op |-> "put_file", bucket |-> source_file_stat.bucket,
                      file_name |-> source_file_stat.file_name,
                      parent_etag |-> parent_etag])]
       IN /\ store' = st
          /\ Finish(r, rq, UploadResponse(put_result, thumbnail),
                    Some(ParentAt(st, req[r].bucket)), st, Disturbed(r))
    /\ UNCHANGED <<env, started>>

\* _create_thumbnail_and_upload: put_file and the response built from its result
PutFileStep(r) ==
    /\ req[r].pc = "put_file"
    /\ LET source_file_stat == Val(req[r].scan.source_file_stat)
           thumbnail == Val(req[r].thumbnail)
           content_type == Val(thumbnail.content_type)
           parent_etag == Some(source_file_stat.etag)
           put_result == PutFileResult(req[r].bucket, source_file_stat.file_name,
                                       Val(thumbnail.data), content_type, parent_etag)
           st == PutObject(store, req[r].bucket, source_file_stat.file_name,
                           Val(thumbnail.data), content_type, parent_etag)
           rq == [req[r] EXCEPT !.calls = Append(@,
                     [op |-> "put_file", bucket |-> req[r].bucket,
                      file_name |-> source_file_stat.file_name,
                      parent_etag |-> parent_etag])]
       IN /\ store' = st
          /\ Finish(r, rq, UploadResponse(put_result, thumbnail),
                    Some(ParentAt(st, req[r].bucket)), st, Disturbed(r))
    /\ UNCHANGED <<env, started>>

\* content type other parties give a file they upload
UploadType(data) == IF IsNone(MIME(data.fmt)) THEN "application/octet-stream"
                    ELSE Val(MIME(data.fmt))

\* another party uploads a file under the source key (a first upload or an overwrite)
OverwriteSource(data) ==
    /\ env < MaxEnvSteps
    /\ EtagAt(store, BucketsMap.source_bucket) # Some(Md5(data))
    /\ store' = [store EXCEPT ![<<BucketsMap.source_bucket, FILE_NAME>>] =
                    Some(StoredObject(data, UploadType(data), None))]
    /\ hist' = [hist EXCEPT !.changed = TRUE,
                   !.overwritten = /\ ~IsNone(EtagAt(store, BucketsMap.source_bucket))
                                   /\ \A q \in Requests : ~InFlight(q)]
    /\ obs' = Disturbed(0)
    /\ env' = env + 1
    /\ UNCHANGED <<req, done, started>>

\* another party deletes the source object
DeleteSource ==
    /\ env < MaxEnvSteps
    /\ ~IsNone(EtagAt(store, BucketsMap.source_bucket))
    /\ store' = [store EXCEPT ![<<BucketsMap.source_bucket, FILE_NAME>>] = None]
    /\ hist' = [hist EXCEPT !.changed = TRUE, !.overwritten = FALSE]
    /\ obs' = Disturbed(0)
    /\ env' = env + 1
    /\ UNCHANGED <<req, done, started>>

\* the lifecycle rule of a thumbnail bucket expires the derivative
ExpireThumbnail(bucket) ==
    /\ env < MaxEnvSteps
    /\ bucket # BucketsMap.buckets[bucket].source_bucket
    /\ BucketsMap.buckets[bucket].life_time_days > 0
    /\ ~IsNone(EtagAt(store, bucket))
    /\ store' = [store EXCEPT ![<<bucket, FILE_NAME>>] = None]
    /\ hist' = [hist EXCEPT !.changed = TRUE]
    /\ obs' = Disturbed(0)
    /\ env' = env + 1
    /\ UNCHANGED <<req, done, started>>

Next ==
    \/ \E r \in Requests, bucket \in RequestBuckets, etag \in InmChoices :
          (\A q \in Requests : ~InFlight(q)) /\ Start(r, bucket, etag)
    \/ \E r \in Requests : SourceStat(r)
    \/ \E r \in Requests : ThumbnailStat(r)
    \/ \E r \in Requests : OpenStreamStep(r)
    \/ \E r \in Requests : LoadFileStep(r)
    \/ \E r \in Requests : PutFileStep(r)
    \/ \E data \in SourceFiles : OverwriteSource(data)
    \/ DeleteSource
    \/ \E bucket \in StoreBuckets : ExpireThumbnail(bucket)

Spec == Init /\ [][Next]_vars

\* ------------------------------------------------- concurrent requests
\* Requests served side by side over a source object nobody writes to: the
\* store calls of the handlers interleave freely.
InitConc ==
    /\ store \in {[k \in StoreKeys |->
                     IF k[1] = "images" THEN Some(StoredObject(data, UploadType(data), None))
                     ELSE IF k[1] = "thumbnail-small" THEN t ELSE None]
                  : t \in {None, Some(LegacyThumbnail)}, data \in {ImgA, ImgT}}
    /\ req = [r \in Requests |-> IdleRequest]
    /\ obs = [r \in Requests |-> IdleObs]
    /\ hist = [last |-> None, changed |-> FALSE, overwritten |-> FALSE]
    /\ done = [rq |-> IdleRequest, ob |-> IdleObs]
    /\ env = 0
    /\ started = 0

\* a request arrives while others may be in flight; the record of the request
\* that completed last is kept
StartConc(r, bucket, etag) ==
    /\ req[r].pc = "idle"
    /\ \A q \in Requests : q < r => req[q].pc # "idle"
    /\ started < MaxRequests
    /\ ~IsNone(GetBucketSettings(bucket))
    /\ started' = started + 1
    /\ req' = [req EXCEPT ![r] =
                 [IdleRequest EXCEPT !.bucket = bucket, !.etag = etag, !.pc = "source_stat"]]
    /\ obs' = [obs EXCEPT ![r] = [IdleObs EXCEPT !.after_overwrite = (env > 0),
                                                !.prev = hist.last,
                                                !.store0 = Some(store)]]
    /\ UNCHANGED <<store, env, hist, done>>

NextConc ==
    \/ \E r \in Requests, bucket \in StoreBuckets :
          \E etag \in {None, EtagAt(store, bucket)} : StartConc(r, bucket, etag)
    \/ \E r \in Requests : SourceStat(r)
    \/ \E r \in Requests : ThumbnailStat(r)
    \/ \E r \in Requests : OpenStreamStep(r)
    \/ \E r \in Requests : LoadFileStep(r)
    \/ \E r \in Requests : PutFileStep(r)

SpecConc == InitConc /\ [][NextConc]_vars

\* concurrent requests for one derivative racing with overwrites of its source
NextRace ==
    \/ \E r \in Requests : StartConc(r, "thumbnail-small", None)
    \/ \E r \in Requests : SourceStat(r)
    \/ \E r \in Requests : ThumbnailStat(r)
    \/ \E r \in Requests : OpenStreamStep(r)
    \/ \E r \in Requests : LoadFileStep(r)
    \/ \E r \in Requests : PutFileStep(r)
    \/ \E data \in {ImgA, ImgB} : OverwriteSource(data)

SpecRace == InitConc /\ [][NextRace]_vars

\* --------------------------------------------------- streamed responses
\* The life of the StorageResponse behind a 200 of _get_file_response.  http is
\* the store's HTTP response (open or closed), released tells whether its
\* connection went back to the pool, gen is the generator read_to_end() returned.
NoStream ==
    [gen |-> "none", http |-> "none", released |-> FALSE, left |-> 0, collected |-> FALSE]

\* _StorageResponse.close
CloseStream(s) ==
    IF s.http # "open" THEN s
    ELSE [s EXCEPT !.http = "closed", !.released = TRUE]

InitStream ==
    /\ store = [k \in StoreKeys |-> None]
    /\ req = [r \in Requests |-> NoStream]
    /\ obs = [r \in Requests |-> IdleObs]
    /\ hist = [last |-> None, changed |-> FALSE, overwritten |-> FALSE]
    /\ done = [rq |-> IdleRequest, ob |-> IdleObs]
    /\ env = 0
    /\ started = 0

\* _get_file_response: open_stream returned a stream over a body of `chunks`
\* chunks, and read_to_end() is handed to the StreamingResponse; calling a
\* generator function runs none of its body
OpenResponse(r, chunks) ==
    /\ req[r].gen = "none"
    /\ req' = [req EXCEPT ![r] = [gen |-> "created", http |-> "open", released |-> FALSE,
                                  left |-> chunks, collected |-> FALSE]]
    /\ UNCHANGED <<store, obs, hist, done, env, started>>

\* the server asks for the next chunk and there is one: on the first call the
\* generator enters `with self as stream`, then it yields the chunk
NextChunk(r) ==
    /\ req[r].gen \in {"created", "suspended"}
    /\ ~req[r].collected
    /\ req[r].left > 0
    /\ req' = [req EXCEPT ![r].gen = "suspended", ![r].left = @ - 1]
    /\ UNCHANGED <<store, obs, hist, done, env, started>>

\* the server asks for the next chunk and the body is at its end: the generator
\* leaves the with block, __exit__ closes the stream
ReadToEnd(r) ==
    /\ req[r].gen \in {"created", "suspended"}
    /\ ~req[r].collected
    /\ req[r].left = 0
    /\ req' = [req EXCEPT ![r] = [CloseStream(@) EXCEPT !.gen = "finished"]]
    /\ UNCHANGED <<store, obs, hist, done, env, started>>

\* the response object is dropped and its generator collected: a generator
\* suspended at its yield gets GeneratorExit there and leaves the with block
\* through __exit__; a generator that never ran has no with block to leave
Collect(r) ==
    /\ req[r].gen \in {"created", "suspended", "finished"}
    /\ ~req[r].collected
    /\ req' = [req EXCEPT ![r] =
                 IF @.gen = "suspended"
                 THEN [CloseStream(@) EXCEPT !.gen = "closed", !.collected = TRUE]
                 ELSE [@ EXCEPT !.collected = TRUE]]
    /\ UNCHANGED <<store, obs, hist, done, env, started>>

NextStream ==
    \/ \E r \in Requests, chunks \in 0 .. MaxChunks : OpenResponse(r, chunks)
    \/ \E r \in Requests : NextChunk(r)
    \/ \E r \in Requests : ReadToEnd(r)
    \/ \E r \in Requests : Collect(r)

SpecStream == InitStream /\ [][NextStream]_vars

\* ------------------------------------------------------ the alias route
\* The deployment of the settings tests, served through both routes; each request
\* is served without pause, other parties write to the source buckets in between.
AliasBucketsMap == GetBucketsMap(SettingsPictures)

AliasStoreKeys ==
    (DOMAIN AliasBucketsMap.buckets \cup AliasBucketsMap.all_source_buckets) \X {FILE_NAME}

\* bucket names and aliases a client may put in a URL
AliasRequestBuckets == AliasBucketsMap.all_source_buckets \cup {"thumbnail-small", "images2"}
AliasRequestAliases == DOMAIN AliasBucketsMap.alias_map \cup {"large"}

\* If-None-Match of a request: none, or the etag of the default source object
AliasInmChoices == {None, EtagAt(store, AliasBucketsMap.source_bucket)}

\* the derivative of pictures/icon.png an earlier request left in thumbnail-small
PicturesThumbnail ==
    StoredObject(Thumbnail(ImgA, 300, 300), "image/png", Some(Md5(ImgA)))

InitAlias ==
    /\ store \in {[k \in AliasStoreKeys |->
                  CASE k[1] = "pictures" -> Some(StoredObject(ImgA, "image/png", None))
                    [] k[1] = "images" -> Some(StoredObject(ImgB, "image/png", None))
                    [] k[1] = "thumbnail-small" -> t
                    [] OTHER -> None] : t \in {None, Some(PicturesThumbnail)}}
    /\ req = [r \in Requests |-> IdleRequest]
    /\ obs = [r \in Requests |-> IdleObs]
    /\ hist = [last |-> None, changed |-> FALSE, overwritten |-> FALSE]
    /\ done = [rq |-> IdleRequest, ob |-> IdleObs]
    /\ env = 0
    /\ started = 0

\* GET /{bucket}/{file_name}/{alias}
AliasRequest(source_bucket, alias, etag) ==
    /\ started < MaxAliasRequests
    /\ started' = started + 1
    /\ LET run == GetThumbnailByAlias(AliasBucketsMap, store, source_bucket, FILE_NAME,
                                      alias, etag)
       IN /\ store' = run.store
          /\ done' = [rq |-> [pc |-> "alias_done", source_bucket |-> source_bucket,
                              alias |-> alias, etag |-> etag, run |-> run],
                      ob |-> [IdleObs EXCEPT !.store0 = Some(store)]]
    /\ UNCHANGED <<req, obs, hist, env>>

\* GET /{bucket}/{file_name}
DirectRequest(bucket, etag) ==
    /\ started < MaxAliasRequests
    /\ started' = started + 1
    /\ LET run == GetThumbnail(AliasBucketsMap, store, bucket, FILE_NAME, etag)
       IN /\ store' = run.store
          /\ done' = [rq |-> [pc |-> "direct_done", bucket |-> bucket,
                              etag |-> etag, run |-> run],
                      ob |-> [IdleObs EXCEPT !.store0 = Some(store)]]
    /\ UNCHANGED <<req, obs, hist, env>>

\* another party uploads a file into a source bucket
UploadSource(source_bucket, data) ==
    /\ env < MaxEnvSteps
    /\ EtagAt(store, source_bucket) # Some(Md5(data))
    /\ store' = [store EXCEPT ![<<source_bucket, FILE_NAME>>] =
                    Some(StoredObject(data, UploadType(data), None))]
    /\ env' = env + 1
    /\ UNCHANGED <<req, obs, hist, done, started>>

\* another party deletes the object of a source bucket
RemoveSource(source_bucket) ==
    /\ env < MaxEnvSteps
    /\ ~IsNone(EtagAt(store, source_bucket))
    /\ store' = [store EXCEPT ![<<source_bucket, FILE_NAME>>] = None]
    /\ env' = env + 1
    /\ UNCHANGED <<req, obs, hist, done, started>>

NextAlias ==
    \/ \E source_bucket \in AliasRequestBuckets, alias \in AliasRequestAliases,
          etag \in AliasInmChoices : AliasRequest(source_bucket, alias, etag)
    \/ \E bucket \in DOMAIN AliasBucketsMap.buckets, etag \in AliasInmChoices :
          DirectRequest(bucket, etag)
    \/ \E source_bucket \in AliasBucketsMap.all_source_buckets, data \in {ImgA, ImgB} :
          UploadSource(source_bucket, data)
    \/ \E source_bucket \in AliasBucketsMap.all_source_buckets : RemoveSource(source_bucket)

SpecAlias == InitAlias /\ [][NextAlias]_vars

\* ------------------------------------------------------ startup and health
\* At startup the buckets service creates the configured buckets in the
\* store and the result is written once into the health check service, which
\* the health route reads.  Under SpecStartup the variables hold: env, the
\* settings; store, the buckets of the store; obs, the startup's position and
\* result; req, HealthCheckService._buckets_info; hist, the calls of
\* set_buckets_info; done, the last call made on the service or the route.

\* models.BucketStatus
BucketStatus == [created |-> "created", exists |-> "exists", error |-> "error"]

\* models.BucketsInfo; a dict is a function over its keys
BucketsInfo(thumbnail_buckets, source_buckets, error) ==
    [thumbnail_buckets |-> thumbnail_buckets, source_buckets |-> source_buckets,
     error |-> error]

EmptyDict == [k \in {} |-> "none"]

\* d[k] = v
DictSet(d, k, v) == [x \in DOMAIN d \cup {k} |-> IF x = k THEN v ELSE d[x]]

\* a Python value with its type, for == between values of different types
PyValue(type, value) == [type |-> type, value |-> value]

\* a == b of a str and a tuple: values of different types are never equal
PyEq(a, b) == a.type = b.type /\ a.value = b.value

\* d.items(): the (key, value) tuples of a dict
DictItems(d) == {PyValue("tuple", <<k, d[k]>>) : k \in DOMAIN d}

\* a deployment with a source bucket and no thumbnail buckets
SettingsSourceOnly == AppSettings(Some("images"), Size(200, 200), <<>>)

\* a deployment without a top-level source bucket
SettingsTwoSources ==
    AppSettings(None, Size(200, 200),
        << BucketEntry("thumbnail-small",
                       BucketSettings(Size(100, 100), 30, "images", Some("small"))),
           BucketEntry("pictures-small",
                       BucketSettings(Size(50, 50), 0, "pictures", Some("p"))) >>)

StartupSettings == {SettingsSourceOnly, SettingsImages, SettingsTwoSources}

\* the buckets a deployment names
SettingsBuckets(settings) ==
    (IF IsNone(settings.source_bucket) THEN {} ELSE {Val(settings.source_bucket)})
    \cup {settings.buckets[i].name : i \in 1 .. Len(settings.buckets)}
    \cup {settings.buckets[i].cfg.source_bucket : i \in 1 .. Len(settings.buckets)}

AllBuckets == UNION {SettingsBuckets(s) : s \in StartupSettings}

\* a bucket of the store: missing, present with its expiration rule (days),
\* or one on which the store answers with an S3Error
BucketStates == {"missing", "present", "failing"}

\* a try_create_bucket that makes the bucket again when it exists
TryCreateBucket_Recreate(storage, bucket, life_time_days) ==
    IF storage[bucket].state = "failing"
    THEN [raised |-> TRUE, value |-> FALSE, storage |-> storage]
    ELSE [raised |-> FALSE, value |-> TRUE,
          storage |-> [storage EXCEPT ![bucket] =
                          [state |-> "present",
                           rule |-> IF life_time_days > 0 THEN Some(life_time_days)
                                    ELSE None]]]

\* S3StorageClient.try_create_bucket: False when the bucket exists, True
\* after it was made with its life time rule, an exception from the store
TryCreateBucket(storage, bucket, life_time_days) ==
    IF storage[bucket].state = "failing"
    THEN [raised |-> TRUE, value |-> FALSE, storage |-> storage]
    ELSE IF storage[bucket].state = "present"
    THEN [raised |-> FALSE, value |-> FALSE, storage |-> storage]
    ELSE [raised |-> FALSE, value |-> TRUE,
          storage |-> [storage EXCEPT ![bucket] =
                          [state |-> "present",
                           rule |-> IF life_time_days > 0 THEN Some(life_time_days)
                                    ELSE None]]]

\* BucketsService._create_bucket
CreateBucket(storage, bucket_name, life_time_days) ==
    LET bucket_created == TryCreateBucket(storage, bucket_name, life_time_days)
    IN [status |-> IF bucket_created.raised THEN BucketStatus.error
                   ELSE IF bucket_created.value THEN BucketStatus.created
                   ELSE BucketStatus.exists,
        storage |-> bucket_created.storage,
        call |-> [op |-> "try_create_bucket", bucket |-> bucket_name,
                  life_time_days |-> life_time_days]]

\* BucketsService._check_if_result_has_errors
CheckIfResultHasErrors(result) ==
    LET source_buckets_have_errors ==
            \E t \in DictItems(result.source_buckets) :
                PyEq(t, PyValue("str", BucketStatus.error))
        thumbnail_buckets_have_errors ==
            \E t \in DictItems(result.thumbnail_buckets) :
                PyEq(t, PyValue("str", BucketStatus.error))
    IN source_buckets_have_errors \/ thumbnail_buckets_have_errors

\* the state of create_buckets: its result so far, the store, the calls made
CreateState(result, storage, calls) ==
    [result |-> result, storage |-> storage, calls |-> calls]

\* a loop of create_buckets that gives up after the first bucket that failed
CreateBucketsOf_StopOnError(settings, cs, entry) ==
    LET thumb == CreateBucket(cs.storage, entry.name, entry.cfg.life_time_days)
        failed == \/ \E b \in DOMAIN cs.result.thumbnail_buckets :
                         cs.result.thumbnail_buckets[b] = BucketStatus.error
                  \/ \E b \in DOMAIN cs.result.source_buckets :
                         cs.result.source_buckets[b] = BucketStatus.error
    IN IF failed THEN cs
       ELSE CreateState(
                BucketsInfo(DictSet(cs.result.thumbnail_buckets, entry.name, thumb.status),
                            cs.result.source_buckets, cs.result.error),
                thumb.storage, Append(cs.calls, thumb.call))

\* one round of the loop of create_buckets over settings.buckets
CreateBucketsOf(settings, cs, entry) ==
    LET thumb == CreateBucket(cs.storage, entry.name, entry.cfg.life_time_days)
        source_bucket == entry.cfg.source_bucket
        own_source == source_bucket # "" /\ Some(source_bucket) # settings.source_bucket
        src == CreateBucket(thumb.storage, source_bucket, 0)
        thumbs == DictSet(cs.result.thumbnail_buckets, entry.name, thumb.status)
    IN IF own_source
       THEN CreateState(
                BucketsInfo(thumbs,
                            DictSet(cs.result.source_buckets, source_bucket, src.status),
                            cs.result.error),
                src.storage, cs.calls \o <<thumb.call, src.call>>)
       ELSE CreateState(BucketsInfo(thumbs, cs.result.source_buckets, cs.result.error),
                        thumb.storage, Append(cs.calls, thumb.call))

RECURSIVE CreateBucketsLoop(_, _, _)
CreateBucketsLoop(settings, cs, i) ==
    IF i > Len(settings.buckets) THEN cs
    ELSE CreateBucketsLoop(settings, CreateBucketsOf(settings, cs, settings.buckets[i]),
                           i + 1)

\* BucketsService.create_buckets
CreateBuckets(settings, storage) ==
    LET result == BucketsInfo(EmptyDict, EmptyDict, TRUE)
        default_source_bucket == settings.source_bucket
        default == CreateBucket(storage, Val(default_source_bucket), 0)
        first == IF ~IsNone(default_source_bucket) /\ Val(default_source_bucket) # ""
                 THEN CreateState(
                          BucketsInfo(EmptyDict,
                                      DictSet(EmptyDict, Val(default_source_bucket),
                                              default.status),
                                      TRUE),
                          default.storage, <<default.call>>)
                 ELSE CreateState(result, storage, <<>>)
        last == CreateBucketsLoop(settings, first, 1)
    IN IF Len(settings.buckets) = 0 THEN CreateState(result, storage, <<>>)
       ELSE CreateState(
                BucketsInfo(last.result.thumbnail_buckets, last.result.source_buckets,
                            CheckIfResultHasErrors(last.result)),
                last.storage, last.calls)

\* set_buckets_info without the assertion that nothing is stored yet
SetBucketsInfoOf_Overwrite(service, buckets_info) ==
    IF IsNone(buckets_info) THEN [raised |-> TRUE, service |-> service]
    ELSE [raised |-> FALSE, service |-> buckets_info]

\* HealthCheckService.set_buckets_info on a service holding _buckets_info
SetBucketsInfoOf(service, buckets_info) ==
    IF IsNone(buckets_info) THEN [raised |-> TRUE, service |-> service]
    ELSE IF ~IsNone(service) THEN [raised |-> TRUE, service |-> service]
    ELSE [raised |-> FALSE, service |-> buckets_info]

\* HealthCheckService.bucket_info
BucketInfoOf(service) ==
    IF IsNone(service) THEN [raised |-> TRUE, value |-> None]
    ELSE [raised |-> FALSE, value |-> service]

\* a health route that never reports a degraded service
HealthStatus_AlwaysOk(result) == 200

\* the status code get_health_check leaves on the response
HealthStatus(result) == IF result.error THEN 500 ELSE 200

\* routes.get_health_check; an assertion raised in the handler is answered 500
\* by the framework, without a body
GetHealthCheckOf(service) ==
    LET result == BucketInfoOf(service)
    IN IF result.raised THEN [raised |-> TRUE, status_code |-> 500, body |-> None]
       ELSE [raised |-> FALSE, status_code |-> HealthStatus(Val(result.value)),
             body |-> Some([status |-> Val(BucketInfoOf(service).value),
                            version |-> "version"])]

\* two results a caller may hand to the service
InfoHealthy ==
    BucketsInfo(EmptyDict, DictSet(EmptyDict, "images", BucketStatus.exists), FALSE)

InfoDegraded ==
    BucketsInfo(EmptyDict, DictSet(EmptyDict, "images", BucketStatus.error), TRUE)

InitStartup ==
    /\ env \in StartupSettings
    /\ store \in {s \in [AllBuckets -> [state : BucketStates, rule : {None}]] :
                     \A b \in AllBuckets \ SettingsBuckets(env) : s[b].state = "missing"}
    /\ req = None
    /\ obs = [pc |-> "boot", info |-> None, calls |-> <<>>, store0 |-> store,
              raised |-> FALSE]
    /\ hist = <<>>
    /\ done = [op |-> "none"]
    /\ started = 0

\* main.__start_app: create_buckets, then set_buckets_info of its result
Startup ==
    /\ obs.pc = "boot"
    /\ LET cs == CreateBuckets(env, store)
           set == SetBucketsInfoOf(req, Some(cs.result))
       IN /\ store' = cs.storage
          /\ req' = set.service
          /\ obs' = [pc |-> IF set.raised THEN "failed" ELSE "serving",
                     info |-> Some(cs.result), calls |-> cs.calls,
                     store0 |-> store, raised |-> set.raised]
          /\ hist' = Append(hist, [arg |-> Some(cs.result), raised |-> set.raised])
          /\ done' = [op |-> "startup", before |-> req]
    /\ UNCHANGED <<env, started>>

\* a call of set_buckets_info by any holder of the service
SetBucketsInfo(buckets_info) ==
    /\ started < MaxHealthCalls
    /\ LET set == SetBucketsInfoOf(req, buckets_info)
       IN /\ req' = set.service
          /\ hist' = Append(hist, [arg |-> buckets_info, raised |-> set.raised])
          /\ done' = [op |-> "set_buckets_info", before |-> req,
                      arg |-> buckets_info, raised |-> set.raised]
    /\ started' = started + 1
    /\ UNCHANGED <<store, obs, env>>

\* a read of the property bucket_info
ReadBucketInfo ==
    /\ started < MaxHealthCalls
    /\ LET read == BucketInfoOf(req)
       IN done' = [op |-> "bucket_info", before |-> req, raised |-> read.raised,
                   value |-> read.value]
    /\ started' = started + 1
    /\ UNCHANGED <<store, req, obs, hist, env>>

\* GET /hc or GET /health
GetHealthCheck ==
    /\ started < MaxHealthCalls
    /\ LET response == GetHealthCheckOf(req)
       IN done' = [op |-> "get_health_check", before |-> req,
                   raised |-> response.raised,
                   status_code |-> response.status_code, body |-> response.body]
    /\ started' = started + 1
    /\ UNCHANGED <<store, req, obs, hist, env>>

NextStartup ==
    \/ Startup
    \/ \E buckets_info \in {None, Some(InfoHealthy), Some(InfoDegraded)} :
           SetBucketsInfo(buckets_info)
    \/ ReadBucketInfo
    \/ GetHealthCheck

SpecStartup == InitStartup /\ [][NextStartup]_vars

\* ------------------------------------------------------ request statistics
\* The middleware schedules, after a response for a known bucket, a
\* background task that records the response in the table request_stats.
\* Recordings of different responses run concurrently: the select and the
\* commit of _add_hit are separate steps.  Under SpecStats the variables
\* hold: store, the rows of request_stats; req, the scheduled recordings in
\* the order of their responses; hist, the responses; obs, the table at the
\* start; done, the last response or finished recording.  A URL path is the
\* sequence of its pieces between slashes: "/hc" is <<"", "hc">>.

\* models.RequestStat: a row of request_stats (id, path and hits)
RequestStat(id, path, hits) == [id |-> id, path |-> path, hits |-> hits]

\* session.scalars(select(RequestStat).where(path == path)).one_or_none()
SelectStat(table, path) ==
    LET rows == {r \in table : r.path = path}
    IN IF rows = {} THEN None ELSE Some(CHOOSE r \in rows : TRUE)

\* the commit of _add_hit on a table without the unique index on path
AddHitCommit_NoUnique(table, path, stats) ==
    LET ids == {0} \cup {r.id : r \in table}
        next_id == 1 + CHOOSE i \in ids : \A j \in ids : j <= i
    IN
    IF IsNone(stats)
    THEN [error |-> "",
          table |-> table \cup
              {RequestStat(next_id, path, 1)}]
    ELSE IF \E r \in table : r.id = Val(stats).id
    THEN [error |-> "",
          table |-> {IF r.id = Val(stats).id
                     THEN [r EXCEPT !.hits = Val(stats).hits + 1] ELSE r : r \in table}]
    ELSE [error |-> "StaleDataError", table |-> table]

\* session.commit() of _add_hit: the new row is inserted with the next id
\* unless its path is taken, the row read is updated by its id to the hits
\* read plus one unless it is gone
AddHitCommit(table, path, stats) ==
    LET ids == {0} \cup {r.id : r \in table}
        next_id == 1 + CHOOSE i \in ids : \A j \in ids : j <= i
    IN
    IF IsNone(stats)
    THEN IF \E r \in table : r.path = path
         THEN [error |-> "IntegrityError", table |-> table]
         ELSE [error |-> "",
               table |-> table \cup
                   {RequestStat(next_id, path, 1)}]
    ELSE IF \E r \in table : r.id = Val(stats).id
    THEN [error |-> "",
          table |-> {IF r.id = Val(stats).id
                     THEN [r EXCEPT !.hits = Val(stats).hits + 1] ELSE r : r \in table}]
    ELSE [error |-> "StaleDataError", table |-> table]

\* a delete that empties the table
InvalidateHits_All(table, path) == {}

\* StatService._invalidate_hits
InvalidateHits(table, path) == {r \in table : r.path # path}

\* middleware._get_all_buckets
KnownBucketPaths(buckets_map) ==
    buckets_map.all_source_buckets \cup DOMAIN buckets_map.buckets

\* a middleware that records every response
StatsMiddleware_Always(known, path, status_code) ==
    <<[path |-> path, status_code |-> status_code]>>

\* stats_middleware: the tasks added to the response's background tasks
StatsMiddleware(known, path, status_code) ==
    LET path_segments == SelectSeq(path, LAMBDA t : t # "")
    IN IF Len(path_segments) > 0 /\ path_segments[1] \in known
       THEN <<[path |-> path, status_code |-> status_code]>>
       ELSE <<>>

\* the responses of the service: /images/a.png, /thumbnail-small/a.png, /hc,
\* /images2/a.png (not configured) and /
StatResponses ==
    ({<<"", "images", "a.png">>, <<"", "thumbnail-small", "a.png">>}
        \X {200, 304, 404, 500})
    \cup ({<<"", "hc">>} \X {200, 500})
    \cup ({<<"", "images2", "a.png">>, <<"", "">>} \X {404})

InitStats ==
    /\ store \in {{}, {RequestStat(1, <<"", "thumbnail-small", "a.png">>, 1)}}
    /\ req = <<>>
    /\ obs = [table0 |-> store]
    /\ hist = <<>>
    /\ done = [op |-> "none"]
    /\ env = KnownBucketPaths(AliasBucketsMap)
    /\ started = 0

\* stats_middleware after the response of the next handler
Respond(path, status_code) ==
    /\ started < MaxResponses
    /\ LET tasks == StatsMiddleware(env, path, status_code)
       IN /\ req' = req \o [i \in 1 .. Len(tasks) |->
                               [pc |-> "scheduled", path |-> tasks[i].path,
                                status_code |-> tasks[i].status_code,
                                stats |-> None, read |-> {}, error |-> ""]]
          /\ hist' = Append(hist, [path |-> path, status_code |-> status_code,
                                   tasks |-> tasks])
          /\ done' = [op |-> "respond", path |-> path, status_code |-> status_code,
                      tasks |-> tasks, scheduled |-> Len(req),
                      before |-> store, after |-> store]
    /\ started' = started + 1
    /\ UNCHANGED <<store, obs, env>>

\* StatService.handle_request up to the commit of _add_hit
HandleRequest(r) ==
    /\ req[r].pc = "scheduled"
    /\ IF req[r].status_code = 404
       THEN /\ store' = InvalidateHits(store, req[r].path)
            /\ req' = [req EXCEPT ![r].pc = "done"]
            /\ done' = [op |-> "handle_request", path |-> req[r].path,
                        status_code |-> 404, read |-> store, before |-> store,
                        after |-> store', error |-> ""]
       ELSE IF req[r].status_code \in {304, 200}
       THEN /\ req' = [req EXCEPT ![r].pc = "selected",
                                  ![r].stats = SelectStat(store, req[r].path),
                                  ![r].read = store]
            /\ UNCHANGED <<store, done>>
       ELSE /\ req' = [req EXCEPT ![r].pc = "done"]
            /\ done' = [op |-> "handle_request", path |-> req[r].path,
                        status_code |-> req[r].status_code, read |-> store,
                        before |-> store, after |-> store, error |-> ""]
            /\ UNCHANGED store
    /\ UNCHANGED <<obs, hist, env, started>>

\* the commit of _add_hit
Commit(r) ==
    /\ req[r].pc = "selected"
    /\ LET commit == AddHitCommit(store, req[r].path, req[r].stats)
       IN /\ store' = commit.table
          /\ req' = [req EXCEPT ![r].pc = IF commit.error = "" THEN "done" ELSE "failed",
                                ![r].error = commit.error]
          /\ done' = [op |-> "handle_request", path |-> req[r].path,
                      status_code |-> req[r].status_code, read |-> req[r].read,
                      before |-> store, after |-> commit.table,
                      error |-> commit.error]
    /\ UNCHANGED <<obs, hist, env, started>>

NextStats ==
    \/ \E response \in StatResponses : Respond(response[1], response[2])
    \/ \E r \in 1 .. Len(req) : HandleRequest(r)
    \/ \E r \in 1 .. Len(req) : Commit(r)

SpecStats == InitStats /\ [][NextStats]_vars

\* ------------------------------------------------- configuration resolution
\* The settings are read from a raw dict (environment, config.json), resolved
\* by AppSettings.before_validator and turned into the bucket map.  A key of
\* a raw dict is absent (None) or present with a str.  Under SpecConfig the
\* variables hold: env, the raw dict; obs, the position, the settings and
\* the bucket map.  The deployments considered set a top-level size.

\* AppSettings.before_validator followed by the validation of the fields; s3
\* is None when it is not a connection string, else the bucket named in the
\* path of the string, if any
BeforeValidator(raw) ==
    LET top == IF IsNone(raw.s3) THEN raw.source_bucket
               ELSE IF ~IsNone(raw.source_bucket) THEN raw.source_bucket
               ELSE Val(raw.s3)
        source_bucket == IF IsNone(top) THEN "None" ELSE Val(top)   \* str(None)
        resolved == [i \in 1 .. Len(raw.buckets) |->
                        IF IsNone(raw.buckets[i].source_bucket) THEN source_bucket
                        ELSE Val(raw.buckets[i].source_bucket)]
        sizes == [i \in 1 .. Len(raw.buckets) |->
                     IF IsNone(raw.buckets[i].size) THEN raw.size
                     ELSE raw.buckets[i].size]
    IN IF \E i \in 1 .. Len(raw.buckets) : resolved[i] = "" \/ IsNone(sizes[i])
       THEN [raised |-> TRUE, settings |-> None]
       ELSE [raised |-> FALSE,
             settings |-> Some(AppSettings(top, Val(raw.size),
                 [i \in 1 .. Len(raw.buckets) |->
                     BucketEntry(raw.buckets[i].name,
                         BucketSettings(Val(sizes[i]), 30, resolved[i],
                                        raw.buckets[i].alias))]))]

\* raw dicts: at most two buckets, each with or without its own source
\* bucket, size and alias; the top-level source bucket absent, empty or set,
\* in the dict or in the connection string
RawSettings ==
    LET first == [name : {"thumbnail-small"},
                  source_bucket : {None, Some("pictures"), Some("")},
                  size : {None, Some(Size(100, 100))},
                  alias : {None, Some("small")}]
        second == [name : {"thumbnail-medium"},
                   source_bucket : {None, Some("pictures")},
                   size : {None},
                   alias : {None, Some("small"), Some("medium"), Some("")}]
    IN [s3 : {None, Some(None), Some(Some("images"))},
        source_bucket : {None, Some("images"), Some("")},
        size : {Some(Size(200, 200))},
        buckets : {<<>>} \cup {<<b>> : b \in first}
                         \cup {<<b, c>> : b \in first, c \in second}]

InitConfig ==
    /\ env \in RawSettings
    /\ obs = [pc |-> "start", settings |-> None, buckets_map |-> None]
    /\ store = {}
    /\ req = <<>>
    /\ hist = <<>>
    /\ done = [op |-> "none"]
    /\ started = 0

\* get_app_settings: AppSettings() over the raw dict
GetAppSettings ==
    /\ obs.pc = "start"
    /\ LET result == BeforeValidator(env)
       IN obs' = [pc |-> IF result.raised THEN "failed" ELSE "resolved",
                  settings |-> result.settings, buckets_map |-> None]
    /\ UNCHANGED <<env, store, req, hist, done, started>>

\* get_buckets_map: _get_buckets_map over the settings; source_buckets[0]
\* raises when there is neither a top-level source bucket nor a bucket
BuildBucketsMap ==
    /\ obs.pc = "resolved"
    /\ LET settings == Val(obs.settings)
           raises == /\ IsNone(settings.source_bucket) \/ Val(settings.source_bucket) = ""
                     /\ Len(settings.buckets) = 0
       IN obs' = IF raises
                 THEN [obs EXCEPT !.pc = "failed"]
                 ELSE [obs EXCEPT !.pc = "mapped",
                                  !.buckets_map = Some(GetBucketsMap(settings))]
    /\ UNCHANGED <<env, store, req, hist, done, started>>

NextConfig == GetAppSettings \/ BuildBucketsMap

SpecConfig == InitConfig /\ [][NextConfig]_vars

\* ------------------------------------------------------- the storage client
\* Calls made directly on S3StorageClient.  A call of the store returns, or
\* raises S3Error, or raises another exception (fault).  A BytesIO is its
\* bytes and its read position.  Under SpecClient the variables hold: store,
\* the objects and the buckets of the store; hist, the calls of
\* try_create_bucket; done, the last call.

\* a handler that turns every exception into None
Guarded_Swallow(value, fault) == [raised |-> None, value |-> None]

\* try / except S3Error: return None / except Exception: raise, around a
\* call of the store that returns value unless it raises fault
Guarded(value, fault) ==
    IF fault = "" THEN [raised |-> None, value |-> value]
    ELSE IF fault = "S3Error" THEN [raised |-> None, value |-> None]
    ELSE [raised |-> Some(fault), value |-> None]

\* a length taken from the read position to the end of the buffer
ContentLength_Remaining(content) == ByteLen(content.data) - content.pos

\* content.seek(0, os.SEEK_END); content.tell()
ContentLength(content) == ByteLen(content.data)

\* S3StorageClient.put_file on a buffer; put_object reads content_length
\* bytes from the position the buffer is at
PutFileOf(st, bucket, file_name, content, content_type, reset_content, parent_etag) ==
    LET content_length == ContentLength(content)
        rewound == [content EXCEPT !.pos = 0]
        uploaded == IF content_length = ByteLen(content.data) - rewound.pos
                    THEN content.data
                    ELSE [content.data EXCEPT !.intact = FALSE]
        read == [rewound EXCEPT !.pos = rewound.pos + content_length]
    IN [st |-> PutObject(st, bucket, file_name, uploaded, content_type, parent_etag),
        length |-> content_length,
        content |-> IF reset_content THEN [read EXCEPT !.pos = 0] ELSE read,
        item |-> [PutFileResult(bucket, file_name, uploaded, content_type, parent_etag)
                     EXCEPT !.size = content_length]]

InitClient ==
    /\ store \in [objects : {[k \in StoreKeys |->
                                 IF k[1] = "images"
                                 THEN Some(StoredObject(ImgA, "image/png", None))
                                 ELSE None]},
                   buckets : [{"images", "test"} ->
                                 {[state |-> "missing", rule |-> None],
                                  [state |-> "present", rule |-> Some(10)],
                                  [state |-> "failing", rule |-> None]}]]
    /\ hist = <<>>
    /\ done = [op |-> "none"]
    /\ started = 0
    /\ req = <<>>
    /\ obs = <<>>
    /\ env = 0

\* get_file_stat, open_stream or load_file
ClientRead(op, bucket, fault) ==
    /\ started < MaxClientCalls
    /\ LET value == CASE op = "get_file_stat" ->
                            GetFileStat(store.objects, bucket, FILE_NAME)
                      [] op = "open_stream" ->
                            OpenStream(store.objects, bucket, FILE_NAME)
                      [] OTHER -> LoadFile(store.objects, bucket, FILE_NAME)
           result == Guarded(value, fault)
       IN done' = [op |-> op, bucket |-> bucket, fault |-> fault,
                   raised |-> result.raised, value |-> result.value]
    /\ started' = started + 1
    /\ UNCHANGED <<store, hist, req, obs, env>>

\* put_file of a buffer left at some position
ClientPut(content, reset_content, parent_etag) ==
    /\ started < MaxClientCalls
    /\ LET put == PutFileOf(store.objects, "thumbnail-small", FILE_NAME, content,
                            "image/png", reset_content, parent_etag)
       IN /\ store' = [store EXCEPT !.objects = put.st]
          /\ done' = [op |-> "put_file", content |-> content,
                      reset_content |-> reset_content, parent_etag |-> parent_etag,
                      length |-> put.length, item |-> put.item,
                      after |-> put.content]
    /\ started' = started + 1
    /\ UNCHANGED <<hist, req, obs, env>>

\* try_create_bucket
ClientTryCreateBucket(bucket, life_time_days) ==
    /\ started < MaxClientCalls
    /\ LET created == TryCreateBucket(store.buckets, bucket, life_time_days)
       IN /\ store' = [store EXCEPT !.buckets = created.storage]
          /\ hist' = Append(hist, [bucket |-> bucket, raised |-> created.raised,
                                   value |-> created.value])
          /\ done' = [op |-> "try_create_bucket", bucket |-> bucket,
                      life_time_days |-> life_time_days,
                      raised |-> created.raised, value |-> created.value,
                      before |-> store.buckets, after |-> created.storage]
    /\ started' = started + 1
    /\ UNCHANGED <<req, obs, env>>

NextClient ==
    \/ \E op \in {"get_file_stat", "open_stream", "load_file"} :
       \E bucket \in {"images", "thumbnail-small"} :
       \E fault \in {"", "S3Error", "ValueError"} : ClientRead(op, bucket, fault)
    \/ \E data \in {ImgA, ImgB} : \E pos \in {0, 8, ByteLen(data)} :
       \E reset_content \in BOOLEAN : \E parent_etag \in {None, Some(Md5(ImgA))} :
           ClientPut([data |-> data, pos |-> pos], reset_content, parent_etag)
    \/ \E bucket \in {"images", "test"} : \E life_time_days \in {0, 30} :
           ClientTryCreateBucket(bucket, life_time_days)

SpecClient == InitClient /\ [][NextClient]_vars

\* ------------------------------------------------- concurrent provisioners
\* Every worker process runs the startup, so several provisioners call
\* create_buckets on the same store; each call of the store made by
\* try_create_bucket is awaited on its own.  Under SpecProvision the
\* variables hold: env, the settings; store, the buckets of the store; req,
\* per provisioner its position, the call it is at and what bucket_exists
\* answered; obs, per provisioner the statuses _create_bucket returned, by
\* call; hist, the provisioners that made a bucket, in order.
Provisioners == {1, 2}

\* a store that answers every call and holds none of the buckets
EmptyStorage == [b \in AllBuckets |-> [state |-> "missing", rule |-> None]]

\* the calls of try_create_bucket that create_buckets makes, in order
ProvisionCalls(settings) == CreateBuckets(settings, EmptyStorage).calls

\* the provisioner moves to its next call of _create_bucket
NextCall(w, status) ==
    /\ obs' = [obs EXCEPT ![w] = Append(@, status)]
    /\ req' = [req EXCEPT ![w] =
                  [pc |-> IF @.i + 1 > Len(ProvisionCalls(env)) THEN "done"
                          ELSE "bucket_exists",
                   i |-> @.i + 1]]

InitProvision ==
    /\ env \in {SettingsImages, SettingsTwoSources}
    /\ store \in {s \in [AllBuckets -> [state : {"missing", "present"}, rule : {None}]] :
                     \A b \in AllBuckets \ SettingsBuckets(env) : s[b].state = "missing"}
    /\ req = [w \in Provisioners |-> [pc |-> "bucket_exists", i |-> 1]]
    /\ obs = [w \in Provisioners |-> <<>>]
    /\ hist = <<>>
    /\ done = [op |-> "none"]
    /\ started = 0

\* try_create_bucket: bucket_exists, and the return of False when it does
BucketExists(w) ==
    /\ req[w].pc = "bucket_exists"
    /\ LET bucket == ProvisionCalls(env)[req[w].i].bucket
           bucket_exists == store[bucket].state = "present"
       IN IF bucket_exists
          THEN NextCall(w, BucketStatus.exists)
          ELSE /\ req' = [req EXCEPT ![w].pc = "make_bucket"]
               /\ UNCHANGED obs
    /\ done' = [op |-> "bucket_exists", by |-> w]
    /\ UNCHANGED <<store, hist, env, started>>

\* try_create_bucket: make_bucket, which the store refuses with an S3Error
\* (BucketAlreadyOwnedByYou) for a bucket that exists; _create_bucket turns
\* the exception into the status error
MakeBucket(w) ==
    /\ req[w].pc = "make_bucket"
    /\ LET call == ProvisionCalls(env)[req[w].i]
       IN IF store[call.bucket].state = "present"
          THEN /\ NextCall(w, BucketStatus.error)
               /\ UNCHANGED <<store, hist>>
          ELSE /\ store' = [store EXCEPT ![call.bucket].state = "present"]
               /\ hist' = Append(hist, w)
               /\ IF call.life_time_days > 0
                  THEN /\ req' = [req EXCEPT ![w].pc = "set_bucket_lifecycle"]
                       /\ UNCHANGED obs
                  ELSE NextCall(w, BucketStatus.created)
    /\ done' = [op |-> "make_bucket", by |-> w]
    /\ UNCHANGED <<env, started>>

\* try_create_bucket: set_bucket_lifecycle, and the return of True
SetBucketLifecycle(w) ==
    /\ req[w].pc = "set_bucket_lifecycle"
    /\ LET call == ProvisionCalls(env)[req[w].i]
       IN store' = [store EXCEPT ![call.bucket].rule = Some(call.life_time_days)]
    /\ NextCall(w, BucketStatus.created)
    /\ done' = [op |-> "set_bucket_lifecycle", by |-> w]
    /\ UNCHANGED <<hist, env, started>>

NextProvision ==
    \/ \E w \in Provisioners : BucketExists(w)
    \/ \E w \in Provisioners : MakeBucket(w)
    \/ \E w \in Provisioners : SetBucketLifecycle(w)

SpecProvision == InitProvision /\ [][NextProvision]_vars

\* -------------------------------------------------------------- image sizes
\* A size of the configuration is given as an ImageSize or as a string that
\* _parse_size converts.  Under SpecSize env holds the size as it is given and
\* done the conversion: its input, the exception raised ("" when none) and
\* the ImageSize returned.

\* the characters of the strings tried: two digits, the separator, a sign
\* and a letter
SizeChars == {"0", "5", "x", "-", "a"}

SizeStrings == UNION {[1 .. n -> SizeChars] : n \in 0 .. MaxSizeLen}

Digits == {Digit(d) : d \in 0 .. 9}

DigitValue(ch) == CHOOSE d \in 0 .. 9 : Digit(d) = ch

\* the value of a string of digits
RECURSIVE Decimal(_)
Decimal(p) ==
    IF Len(p) = 0 THEN 0
    ELSE 10 * Decimal(SubSeq(p, 1, Len(p) - 1)) + DigitValue(p[Len(p)])

\* int(p) of a non-empty str over SizeChars: an optional sign and one or more
\* digits; None is ValueError
PyInt(p) ==
    LET negative == Len(p) > 0 /\ p[1] = "-"
        digits == IF negative THEN SubSeq(p, 2, Len(p)) ELSE p
    IN IF Len(digits) = 0 \/ \E i \in 1 .. Len(digits) : digits[i] \notin Digits
       THEN None
       ELSE Some(IF negative THEN 0 - Decimal(digits) ELSE Decimal(digits))

\* source.split('x')
RECURSIVE SplitX(_)
SplitX(source) ==
    LET xs == {i \in 1 .. Len(source) : source[i] = "x"}
    IN IF xs = {} THEN <<source>>
       ELSE LET k == CHOOSE i \in xs : \A j \in xs : i <= j
            IN <<SubSeq(source, 1, k - 1)>> \o SplitX(SubSeq(source, k + 1, Len(source)))

\* config._parse_size
ParseSize(source) ==
    LET pieces == SelectSeq(SplitX(source), LAMBDA p : Len(p) > 0)
        str_parts == [i \in 1 .. Len(pieces) |-> PyInt(pieces[i])]
    IN IF Len(source) = 0
       THEN [raised |-> "AssertionError", value |-> None]
       ELSE IF (\A i \in 1 .. Len(str_parts) : ~IsNone(str_parts[i])) /\ Len(str_parts) = 2
       THEN [raised |-> "", value |-> Some(Size(Val(str_parts[1]), Val(str_parts[2])))]
       ELSE [raised |-> "ValueError", value |-> None]

\* the integers tried as the fields of an ImageSize given structurally
SizeFields == {0 - 1, 0, 1, 200}

InitSize ==
    /\ env \in [kind : {"str"}, source : SizeStrings]
                  \cup [kind : {"ImageSize"}, w : SizeFields, h : SizeFields]
    /\ done = [op |-> "none"]
    /\ store = None /\ req = None /\ obs = None /\ hist = None
    /\ started = 0

\* a size given as a string: before_validator calls _parse_size
ParseSizeStep ==
    /\ env.kind = "str"
    /\ done.op = "none"
    /\ done' = [op |-> "parse_size", source |-> env.source,
                raised |-> ParseSize(env.source).raised,
                value |-> ParseSize(env.source).value]
    /\ UNCHANGED <<store, req, obs, hist, env, started>>

\* a size given as {"w": w, "h": h}: the dataclass validates that both are int
ImageSizeStep ==
    /\ env.kind = "ImageSize"
    /\ done.op = "none"
    /\ done' = [op |-> "image_size", source |-> <<env.w, env.h>>, raised |-> "",
                value |-> Some(Size(env.w, env.h))]
    /\ UNCHANGED <<store, req, obs, hist, env, started>>

NextSize ==
    \/ ParseSizeStep
    \/ ImageSizeStep

SpecSize == InitSize /\ [][NextSize]_vars

\* ------------------------------------------------------------- properties
\* the request that completed last
D == done.rq
O == done.ob

Responded == D.pc = "done"
StatusCode == Val(D.response).status_code

PutCalls(calls) == SelectSeq(calls, LAMBDA c : c.op = "put_file")

\* the file resize_image is given decodes: a known format with its pixel data whole
Decodes(data) == data.fmt \in KnownFormats /\ data.intact

\* C1 as stated: every 200 or 304 for a derived bucket serves a derivative whose
\* parent etag is the etag the source object has when the response leaves,
\* whatever was written to the store while the request was served.
C1_FreshnessAlways ==
    (Responded /\ Derived(D.bucket) /\ StatusCode \in {200, 304})
        => (~IsNone(O.served) /\ Val(O.served) = O.src_at_resp)

\* C1 amended: every 200 or 304 for a derived bucket, served while nobody else
\* wrote to the store, serves a derivative whose parent etag is the etag of the
\* source object.
C1_FreshnessUndisturbed ==
    (Responded /\ Derived(D.bucket) /\ StatusCode \in {200, 304} /\ ~O.dirty)
        => (~IsNone(O.served) /\ Val(O.served) = O.src_at_resp)

C1_Witness ==
    /\ Responded /\ Derived(D.bucket) /\ StatusCode = 304 /\ ~O.dirty
    /\ D.scan.status = "FILE_FOUND"
    /\ Val(O.served) = O.src_at_resp

\* the source object and the derivative's parent etag when the request came in
SourceAtStart == Val(O.store0)[<<BucketsMap.buckets[D.bucket].source_bucket, FILE_NAME>>]
ParentAtStart == ParentAt(Val(O.store0), D.bucket)

\* the request re-materialized: CREATE_NEW, one put bound to the source etag, and
\* a 200 that carries the thumbnail of the source as it is now
Rematerialized ==
    /\ Responded
    /\ D.scan.status = "CREATE_NEW"
    /\ StatusCode = 200
    /\ Len(PutCalls(D.calls)) = 1
    /\ PutCalls(D.calls)[1].parent_etag = O.src_at_resp
    /\ Val(O.served) = O.src_at_resp
    /\ Val(D.response).stream =
          Some(Thumbnail(Val(SourceAtStart).data,
                         BucketsMap.buckets[D.bucket].size.w,
                         BucketsMap.buckets[D.bucket].size.h))

\* C2 as stated: the first request for a derived bucket after the source was
\* overwritten with a different etag, served alone, re-materializes and returns
\* 200 with the new derivative.
C2_NextRequestRematerializes ==
    (D.pc \in {"done", "raised"} /\ Derived(D.bucket) /\ O.after_overwrite /\ ~O.dirty)
        => Rematerialized

\* C2 amended: the same, when the new source content is an image that decodes and
\* the stored derivative, if any, is not already bound to the new source etag.
C2_StaleDerivativeRematerialized ==
    (/\ D.pc \in {"done", "raised"} /\ Derived(D.bucket) /\ O.after_overwrite /\ ~O.dirty
     /\ Decodes(Val(SourceAtStart).data)
     /\ ParentAtStart # Some(Md5(Val(SourceAtStart).data)))
        => Rematerialized

C2_Witness ==
    /\ Derived(D.bucket) /\ O.after_overwrite /\ ~O.dirty
    /\ ~IsNone(ParentAtStart)
    /\ Rematerialized

\* C3: for a derived bucket whose source object exists, the scan is FILE_FOUND
\* exactly when the derivative exists and its parent etag is the etag of the
\* scan's own source stat, and CREATE_NEW in every other case.
C3_FileFoundIffFresh ==
    (D.pc \in {"done", "raised"} /\ Derived(D.bucket) /\ ~IsNone(D.scan.source_file_stat))
        => /\ D.scan.status \in {"FILE_FOUND", "CREATE_NEW"}
           /\ D.scan.status = "FILE_FOUND" <=>
                 /\ ~IsNone(Val(O.seen))
                 /\ Val(Val(O.seen)).parent_etag =
                       Some(Val(D.scan.source_file_stat).etag)

\* a derivative without a parent etag is classified CREATE_NEW
C3_Witness ==
    /\ Responded /\ Derived(D.bucket) /\ D.scan.status = "CREATE_NEW"
    /\ ~IsNone(O.seen) /\ ~IsNone(Val(O.seen))
    /\ IsNone(Val(Val(O.seen)).parent_etag)

\* C4: the scan is BUCKET_NOT_FOUND exactly when the bucket is neither configured
\* nor the default source; the response is then the 404 JSON and the store was
\* not called.
C4_BucketNotFound ==
    D.pc \in {"done", "raised"} =>
        /\ D.scan.status = "BUCKET_NOT_FOUND" <=>
              (D.bucket \notin DOMAIN BucketsMap.buckets /\ D.bucket # BucketsMap.source_bucket)
        /\ D.scan.status = "BUCKET_NOT_FOUND" =>
              /\ D.response = Some(NOT_FOUND_RESPONSE)
              /\ Val(D.response).status_code = 404
              /\ Val(D.response).json = Some("File not found")
              /\ D.calls = <<>>

C4_Witness == Responded /\ D.scan.status = "BUCKET_NOT_FOUND" /\ D.bucket = "images2"

\* C5: when the source object is absent the scan is SOURCE_FILE_NOT_FOUND and the
\* response 404; the derivative is neither stat-ed nor opened, and nothing is put.
C5_SourceMissing ==
    (D.pc \in {"done", "raised"} /\ ~IsNone(O.src_seen) /\ IsNone(Val(O.src_seen)))
        => /\ D.scan.status = "SOURCE_FILE_NOT_FOUND"
           /\ D.response = Some(NOT_FOUND_RESPONSE)
           /\ D.calls = <<Call("get_file_stat",
                               BucketsMap.buckets[D.bucket].source_bucket, FILE_NAME)>>
           /\ ~O.wrote

\* the source is gone while its derivative is still stored
C5_Witness ==
    /\ Responded /\ Derived(D.bucket) /\ D.scan.status = "SOURCE_FILE_NOT_FOUND"
    /\ ~IsNone(EtagAt(store, D.bucket))
    /\ IsNone(EtagAt(store, BucketsMap.source_bucket))

\* the request repeats the previous GET: same key, If-None-Match is the Etag of
\* its 200, and the store did not change since that response left
RepeatsPrevious ==
    /\ D.pc \in {"done", "raised"}
    /\ ~IsNone(O.prev)
    /\ Val(O.prev).bucket = D.bucket
    /\ Val(O.prev).status_code = 200
    /\ ~IsNone(D.etag) /\ Val(O.prev).etag = D.etag
    /\ ~O.prev_changed
    /\ ~O.dirty

NotModifiedWith(etag) ==
    /\ Responded
    /\ StatusCode = 304
    /\ Val(D.response).etag = etag

\* C6 as stated: a GET that repeats a 200 with If-None-Match set to its Etag, the
\* store unchanged between the two, returns 304 with that Etag.
C6_EtagRoundTrip == RepeatsPrevious => NotModifiedWith(D.etag)

\* C6 amended: the same, when the store was not written by anyone else while the
\* first GET was served either.
C6_EtagRoundTripQuiet ==
    (RepeatsPrevious /\ ~Val(O.prev).dirty) => NotModifiedWith(D.etag)

\* the first 200 was a freshly uploaded derivative
C6_Witness ==
    /\ RepeatsPrevious /\ ~Val(O.prev).dirty /\ Val(O.prev).created
    /\ NotModifiedWith(D.etag)

\* C7: _get_file_response answers 304 exactly when If-None-Match is supplied and
\* equals the stat etag of the item served; the 304 carries that etag, has no
\* body, and no stream was opened.
C7_NotModifiedIffEtagMatches ==
    (Responded /\ D.scan.status \in {"USE_SOURCE_FILE", "FILE_FOUND"})
        => /\ StatusCode = 304 <=>
                 (~IsNone(D.etag) /\ Val(D.etag) = ServedItem(D.scan).etag)
           /\ StatusCode = 304 =>
                 /\ Val(D.response).etag = Some(ServedItem(D.scan).etag)
                 /\ IsNone(Val(D.response).stream)
                 /\ IsNone(Val(D.response).json)
                 /\ IsNone(Val(D.response).content_length)
                 /\ \A i \in 1 .. Len(D.calls) : D.calls[i].op # "open_stream"

C7_Witness ==
    /\ Responded /\ D.scan.status = "USE_SOURCE_FILE" /\ StatusCode = 304
    /\ D.etag = Some(ServedItem(D.scan).etag)

\* the thumbnail resize_image returned is usable
Resized ==
    /\ ~IsNone(D.thumbnail)
    /\ ~Val(D.thumbnail).raised
    /\ IsNone(Val(D.thumbnail).error)
    /\ ~IsNone(Val(D.thumbnail).data)

\* C8: CREATE_NEW with the source loaded and resized makes exactly one put, to the
\* requested bucket and name, with parent_etag the etag of the request's source
\* stat, and answers 200 with the Etag and Content-Length of what was put.
C8_OnePutBoundToSourceStat ==
    (Responded /\ D.scan.status = "CREATE_NEW" /\ Resized)
        => /\ Len(PutCalls(D.calls)) = 1
           /\ PutCalls(D.calls)[1].bucket = D.bucket
           /\ PutCalls(D.calls)[1].file_name = FILE_NAME
           /\ PutCalls(D.calls)[1].parent_etag = Some(Val(D.scan.source_file_stat).etag)
           /\ StatusCode = 200
           /\ Val(D.response).etag = Some(Md5(Val(Val(D.thumbnail).data)))
           /\ Val(D.response).content_length =
                 Some(Str(ByteLen(Val(Val(D.thumbnail).data))))

C8_Witness ==
    /\ Responded /\ D.scan.status = "CREATE_NEW" /\ Resized /\ StatusCode = 200
    /\ D.bucket = "thumbnail-medium"

\* the load returned nothing, or it returned an image resize_image reports an error for
MaterializationFailed ==
    /\ Responded /\ D.scan.status = "CREATE_NEW"
    /\ ~IsNone(O.loaded)
    /\ \/ IsNone(Val(O.loaded))
       \/ (Val(Val(O.loaded)).fmt \in KnownFormats /\ ~Val(Val(O.loaded)).intact)

\* C9: when materialization fails on the CREATE_NEW path the response is 404 and
\* nothing is put.
C9_FailedMaterializationNotStored ==
    MaterializationFailed
        => /\ D.response = Some(NOT_FOUND_RESPONSE)
           /\ PutCalls(D.calls) = <<>>
           /\ ~O.wrote

\* resize_image reported an error for an image whose data is cut short
C9_Witness ==
    /\ MaterializationFailed
    /\ ~IsNone(Val(O.loaded))
    /\ ~IsNone(Val(D.thumbnail).error)
    /\ StatusCode = 404

\* C10: resize_image never raises to its caller: every failure comes back as an
\* ImageData with error set and data absent.
C10_ResizeNeverRaises ==
    (~IsNone(D.thumbnail))
        => /\ ~Val(D.thumbnail).raised
           /\ (IsNone(Val(D.thumbnail).data) => ~IsNone(Val(D.thumbnail).error))
           /\ (~IsNone(Val(D.thumbnail).error) => IsNone(Val(D.thumbnail).data))

\* ------------------------------------------------------------ concurrency
\* nothing is in flight: every request received has completed
Quiescent == \A q \in Requests : ~InFlight(q)

\* the bytes of the source object of the bucket of the request completed last
SourceNow == Val(store[<<BucketsMap.buckets[D.bucket].source_bucket, FILE_NAME>>]).data

\* the request completed last missed, and every concurrent miss ended well: it
\* returned 200, and once nothing is in flight the stored derivative is bound to
\* the source etag
MissEndedWell ==
    /\ Responded /\ StatusCode = 200
    /\ Quiescent => ParentAt(store, D.bucket) =
                       EtagAt(store, BucketsMap.buckets[D.bucket].source_bucket)

\* C11 as stated: with the source unchanged, every request that misses, however
\* its store calls interleave with those of other requests, returns 200, and when
\* all have completed the stored derivative carries the source etag.
C11_ConcurrentMisses ==
    (D.pc \in {"done", "raised"} /\ D.scan.status = "CREATE_NEW") => MissEndedWell

\* C11 amended: the same for a source object that is an image resize_image can
\* process.
C11_ConcurrentMissesOfImage ==
    (D.pc \in {"done", "raised"} /\ D.scan.status = "CREATE_NEW" /\ Decodes(SourceNow))
        => MissEndedWell

\* two misses on thumbnail-medium overlapped: the put of one landed while the
\* other was between its stat and its own put
C11_Witness ==
    /\ Quiescent /\ started = 2
    /\ D.bucket = "thumbnail-medium" /\ D.scan.status = "CREATE_NEW" /\ O.dirty
    /\ IsNone(store[<<"thumbnail-small", FILE_NAME>>])
    /\ Decodes(SourceNow) /\ MissEndedWell

\* the etag the source object had when the request came in
NewSourceEtag == Md5(Val(SourceAtStart).data)

\* the request came in after the source was overwritten, and the source was not
\* overwritten again before the scan took its stat
ScanAfterOverwrite ==
    /\ D.pc \in {"done", "raised"} /\ Derived(D.bucket)
    /\ O.after_overwrite
    /\ O.src_seen = Some(SourceAtStart)

\* C12: a scan that starts after the source was overwritten is not FILE_FOUND for
\* a derivative whose parent etag differs from the new source etag, whenever the
\* puts of the requests that were in flight during the overwrite landed.
C12_NoStaleFileFound ==
    (/\ ScanAfterOverwrite
     /\ ~IsNone(O.seen) /\ ~IsNone(Val(O.seen))
     /\ Val(Val(O.seen)).parent_etag # Some(NewSourceEtag))
        => D.scan.status # "FILE_FOUND"

\* the previous request was in flight when the source was overwritten and put its
\* derivative, bound to the old etag, afterwards; the scan finds it and rejects it
C12_Witness ==
    /\ ScanAfterOverwrite
    /\ ~IsNone(O.prev) /\ Val(O.prev).dirty /\ Val(O.prev).created
    /\ Val(O.prev).bucket = D.bucket
    /\ ~IsNone(Val(O.seen)) /\ ~IsNone(Val(Val(O.seen)).parent_etag)
    /\ Val(Val(O.seen)).parent_etag # Some(NewSourceEtag)
    /\ D.scan.status = "CREATE_NEW"

\* ------------------------------------------------------------ alias route
\* the alias request completed last
A == done.rq
AliasDone == A.pc = "alias_done"

\* the store the request completed last started from
Store0 == Val(done.ob.store0)

\* C13: for a source bucket S of the deployment and an alias A of its alias map,
\* the alias route returns the response, leaves the store and makes the store
\* calls of get_thumbnail(alias_map[A], f, etag) started from the same store.
C13_AliasEquivalence ==
    (/\ AliasDone
     /\ A.source_bucket \in AliasBucketsMap.all_source_buckets
     /\ A.alias \in DOMAIN AliasBucketsMap.alias_map)
        => A.run = GetThumbnail(AliasBucketsMap, Store0,
                                AliasBucketsMap.alias_map[A.alias], FILE_NAME, A.etag)

\* /images/icon.png/small materializes the derivative of thumbnail-small
C13_Witness ==
    /\ AliasDone /\ A.source_bucket = "images" /\ A.alias = "small"
    /\ A.run.response.status_code = 200
    /\ A.run.store # Store0
    /\ ~IsNone(A.run.store[<<"thumbnail-small", FILE_NAME>>])

\* C14: for a source bucket S of the deployment, the default one or the source
\* of a single bucket, and an alias that is not in the alias map, the alias route
\* answers as a request for S/f itself: 200 with the bytes of S/f, or 304,
\* whenever S/f exists.
C14_UnknownAliasServesSource ==
    (/\ AliasDone
     /\ A.source_bucket \in AliasBucketsMap.all_source_buckets
     /\ A.alias \notin DOMAIN AliasBucketsMap.alias_map
     /\ ~IsNone(Store0[<<A.source_bucket, FILE_NAME>>]))
        => /\ A.run.response.status_code \in {200, 304}
           /\ A.run.response.status_code = 200 =>
                 A.run.response.stream =
                    Some(Val(Store0[<<A.source_bucket, FILE_NAME>>]).data)
           /\ A.run.store = Store0

\* ----------------------------------------------------------- serve source
\* the request completed last named a bucket that is its own source bucket, and
\* the source object was there when the scan took its stat
SourceRequested ==
    /\ D.pc \in {"done", "raised"}
    /\ ~IsNone(GetBucketSettings(D.bucket))
    /\ D.bucket = Val(GetBucketSettings(D.bucket)).source_bucket
    /\ ~IsNone(O.src_seen) /\ ~IsNone(Val(O.src_seen))

\* C15: a request for a bucket that is its own source bucket, the source object
\* existing, is classified USE_SOURCE_FILE and answered from the stored source
\* object itself: the only store calls are the source stat and, unless the
\* request is answered 304, open_stream on source_bucket/object; a 200 carries the
\* bytes and the etag of the object stored there; nothing is resized or put.
C15_ServeSourceIdentity ==
    SourceRequested =>
        /\ Responded
        /\ D.scan.status = "USE_SOURCE_FILE"
        /\ IsNone(D.thumbnail)
        /\ ~O.wrote
        /\ D.calls \in {<<Call("get_file_stat", D.bucket, FILE_NAME)>>,
                        <<Call("get_file_stat", D.bucket, FILE_NAME),
                          Call("open_stream", D.bucket, FILE_NAME)>>}
        /\ StatusCode = 304 <=> Len(D.calls) = 1
        /\ StatusCode = 200 =>
              /\ ~IsNone(Val(D.response).stream)
              /\ Some(Md5(Val(Val(D.response).stream))) = O.src_at_resp
              /\ Val(D.response).etag = O.src_at_resp
              /\ ~O.dirty => Val(D.response).stream = Some(Val(Val(O.src_seen)).data)
        /\ ~O.dirty => StatusCode \in {200, 304}

\* GET /images/icon.png answered 200 with the bytes stored in images
C15_Witness ==
    /\ SourceRequested /\ StatusCode = 200 /\ ~O.dirty
    /\ D.bucket = "images"
    /\ Len(D.calls) = 2
    /\ Val(D.response).stream = Some(Val(Val(O.src_seen)).data)

\* ----------------------------------------------------------------- streams
\* C16: every stream opened by _get_file_response ends closed with its
\* connection released, whichever way the response went: read to the end,
\* aborted midway, or dropped before its first chunk was read.  Once the
\* response is collected nothing acts on the stream any more.
C16_StreamsReleased ==
    \A r \in Requests :
        req[r].collected => (req[r].http = "closed" /\ req[r].released)

\* ------------------------------------------------------- startup and health
\* the startup has run create_buckets; its result and the store it found
Booted == obs.pc # "boot"

Info == Val(obs.info)

\* some entry of the result has the status error
HasErrorEntry(info) ==
    \/ \E b \in DOMAIN info.thumbnail_buckets :
           info.thumbnail_buckets[b] = BucketStatus.error
    \/ \E b \in DOMAIN info.source_buckets :
           info.source_buckets[b] = BucketStatus.error

\* C17: the error flag of the BucketsInfo returned by create_buckets is true
\* if and only if at least one entry of thumbnail_buckets or source_buckets
\* has the status error.
C17_ErrorIffErrorEntry ==
    Booted => (Info.error <=> HasErrorEntry(Info))

\* the deployment has a top-level source bucket and no thumbnail buckets
SourceOnly == Len(env.buckets) = 0 /\ ~IsNone(env.source_bucket)

\* the source bucket was created by the startup or existed before it
SourceUsable == obs.store0[Val(env.source_bucket)].state # "failing"

\* C18: with no thumbnail buckets configured and a top-level source bucket
\* set, create_buckets attempts try_create_bucket(source_bucket, 0) and
\* returns error = false exactly when that bucket was created or already
\* exists, and the health route then answers 200 exactly in that case.
C18_SourceOnlyStartup ==
    (SourceOnly /\ Booted) =>
        /\ \E i \in 1 .. Len(obs.calls) :
               obs.calls[i] = [op |-> "try_create_bucket",
                               bucket |-> Val(env.source_bucket),
                               life_time_days |-> 0]
        /\ Info.error = FALSE <=> SourceUsable
        /\ (done.op = "get_health_check" /\ done.before = obs.info) =>
               (done.status_code = 200 <=> SourceUsable)

\* the calls of set_buckets_info that stored their argument
Accepted == {i \in 1 .. Len(hist) : ~hist[i].raised}

\* C19: the health check service is written once: a call of set_buckets_info
\* succeeds only while nothing is stored, every later call is rejected and
\* leaves the stored value unchanged, bucket_info returns the value of the
\* first write, and a read before any write is rejected.
C19_WriteOnce ==
    /\ Cardinality(Accepted) <= 1
    /\ \A i \in 1 .. Len(hist) :
           ~hist[i].raised <=>
               (~IsNone(hist[i].arg) /\ \A j \in 1 .. i - 1 : hist[j].raised)
    /\ IF Accepted = {} THEN IsNone(req)
       ELSE \A i \in Accepted : req = hist[i].arg
    /\ done.op = "bucket_info" =>
           IF Accepted = {} THEN done.raised
           ELSE ~done.raised /\ \A i \in Accepted : done.value = hist[i].arg

\* a second write was rejected and a read still returned the first value
C19_Witness ==
    /\ Len(hist) >= 2
    /\ ~hist[1].raised
    /\ hist[2].raised
    /\ hist[2].arg # hist[1].arg
    /\ ~IsNone(hist[2].arg)
    /\ done.op = "bucket_info"
    /\ done.value = hist[1].arg

\* C20: the health route answers 500 if and only if the stored
\* BucketsInfo.error is true and 200 otherwise, and returns the stored info
\* in both cases.
C20_HealthRoute ==
    (done.op = "get_health_check" /\ ~IsNone(done.before)) =>
        /\ done.status_code = (IF Val(done.before).error THEN 500 ELSE 200)
        /\ ~IsNone(done.body)
        /\ Val(done.body).status = Val(done.before)

\* the route answered 500 with a stored info whose error flag is set
C20_Witness ==
    /\ done.op = "get_health_check"
    /\ ~IsNone(done.before)
    /\ Val(done.before).error
    /\ done.status_code = 500
    /\ Val(done.body).status = Val(done.before)

\* ------------------------------------------------------- request statistics
\* the last recording ran without another recording between its steps
RanAlone == done.op = "handle_request" /\ done.read = done.before

\* the rows of a table with a path
RowsOf(table, path) == {r \in table : r.path = path}

\* C21: handle_request(path, 404) deletes the row keyed by exactly that path
\* and changes no other row; with 200 or 304 it increments the hits of the
\* existing row by one, or inserts a row with hits = 1 when there is none;
\* with any other status it leaves the table unchanged.
C21_HandleRequest ==
    RanAlone =>
        LET own == RowsOf(done.before, done.path)
            others == done.before \ own
        IN IF done.status_code = 404 THEN done.after = others
           ELSE IF done.status_code \in {200, 304}
           THEN /\ done.after \ RowsOf(done.after, done.path) = others
                /\ IF own = {}
                   THEN \E r \in done.after :
                            /\ RowsOf(done.after, done.path) = {r}
                            /\ r.hits = 1
                   ELSE RowsOf(done.after, done.path) =
                            {[r EXCEPT !.hits = r.hits + 1] : r \in own}
           ELSE done.after = done.before

\* a 404 deleted the row of its path and left the row of another path
C21_Witness ==
    /\ RanAlone
    /\ done.status_code = 404
    /\ RowsOf(done.before, done.path) # {}
    /\ done.after # {}
    /\ done.after = done.before \ RowsOf(done.before, done.path)

\* every scheduled recording has run to its end
AllRecorded == \A r \in 1 .. Len(req) : req[r].pc \in {"done", "failed"}

\* the responses for a path with one of the given statuses
ResponsesOf(path, statuses) ==
    {i \in 1 .. Len(hist) : hist[i].path = path /\ hist[i].status_code \in statuses}

\* C22: for a path of a known bucket with no row at the start and no 404 in
\* between, once the recordings of N responses with 200 or 304 have all run,
\* the hits of its row are N, whatever the order of the selects and commits.
C22_ExactHits ==
    \A path \in {<<"", "images", "a.png">>, <<"", "thumbnail-small", "a.png">>} :
        (/\ AllRecorded
         /\ RowsOf(obs.table0, path) = {}
         /\ ResponsesOf(path, {404}) = {}
         /\ ResponsesOf(path, {200, 304}) # {})
        => \E r \in store :
               /\ r.path = path
               /\ r.hits = Cardinality(ResponsesOf(path, {200, 304}))

\* C23: request_stats holds at most one row per path in every reachable
\* state, also after concurrent first hits on a path and after races between
\* the recording of a 404 and the recording of a 200.
C23_UniquePath ==
    \A r1 \in store : \A r2 \in store : r1.path = r2.path => r1 = r2

\* two first hits on a path raced: one inserted the row, the other's insert
\* was refused
C23_Witness ==
    \E r \in 1 .. Len(req) :
        /\ req[r].error = "IntegrityError"
        /\ IsNone(req[r].stats)
        /\ Cardinality(RowsOf(store, req[r].path)) = 1

\* the piece of a URL path after its leading slash
FirstSegment(path) == path[2]

\* C24: a response whose first path segment is not a known bucket (not in
\* all_source_buckets nor a key of buckets) schedules no recording and leaves
\* request_stats unchanged; a response whose first segment is known schedules
\* exactly one recording, with the exact request path and the response status.
C24_RecorderEngagement ==
    done.op = "respond" =>
        IF FirstSegment(done.path) \in
               AliasBucketsMap.all_source_buckets \cup DOMAIN AliasBucketsMap.buckets
        THEN /\ Len(req) = done.scheduled + 1
             /\ req[Len(req)].path = done.path
             /\ req[Len(req)].status_code = done.status_code
        ELSE /\ Len(req) = done.scheduled
             /\ done.after = done.before
             /\ \A r \in 1 .. Len(req) : req[r].path # done.path

\* the response of /hc scheduled nothing after one for a source bucket did
C24_Witness ==
    /\ done.op = "respond"
    /\ done.path = <<"", "hc">>
    /\ Len(req) = 1
    /\ req[1].path = <<"", "images", "a.png">>
    /\ Len(hist) = 2

\* ---------------------------------------------------------- configuration
\* the bucket map was derived from accepted settings
Mapped == obs.pc = "mapped"

TheMap == Val(obs.buckets_map)

\* C25: for every AppSettings accepted by validation, the source_bucket of
\* the derived BucketsMap is a key of its buckets and a member of its
\* all_source_buckets, also when buckets is empty and when every configured
\* bucket overrides source_bucket with another value.
C25_SourceBucketPresent ==
    Mapped =>
        /\ TheMap.source_bucket \in DOMAIN TheMap.buckets
        /\ TheMap.source_bucket \in TheMap.all_source_buckets

\* the buckets of the settings, by index
Configured == Val(obs.settings).buckets

\* C26: alias_map is injective and well-formed: every alias maps to one
\* configured bucket, the configured alias of that bucket is that alias, and
\* no two aliases map to the same bucket.
C26_AliasMapInjective ==
    Mapped =>
        /\ \A a \in DOMAIN TheMap.alias_map :
               \E i \in 1 .. Len(Configured) :
                   /\ Configured[i].name = TheMap.alias_map[a]
                   /\ Configured[i].cfg.alias = Some(a)
        /\ \A a \in DOMAIN TheMap.alias_map : \A b \in DOMAIN TheMap.alias_map :
               TheMap.alias_map[a] = TheMap.alias_map[b] => a = b

\* two buckets with two aliases were mapped
C26_Witness ==
    /\ Mapped
    /\ Cardinality(DOMAIN TheMap.alias_map) = 2
    /\ TheMap.alias_map["small"] = "thumbnail-small"
    /\ TheMap.alias_map["medium"] = "thumbnail-medium"

\* no top-level source bucket is configured, in the dict or in the
\* connection string
NoTopLevelSource ==
    /\ IsNone(env.source_bucket) \/ Val(env.source_bucket) = ""
    /\ IsNone(env.s3) \/ IsNone(Val(env.s3))

\* C27: resolution fails whenever no top-level source_bucket is configured
\* and some configured bucket has no source_bucket of its own, and no bucket
\* is ever resolved with a placeholder or an empty source_bucket.
C27_ResolutionFails ==
    /\ (/\ obs.pc # "start"
        /\ NoTopLevelSource
        /\ \E i \in 1 .. Len(env.buckets) : IsNone(env.buckets[i].source_bucket))
       => IsNone(obs.settings)
    /\ ~IsNone(obs.settings) =>
           \A i \in 1 .. Len(Configured) :
               Configured[i].cfg.source_bucket \notin {"", "None"}

\* ------------------------------------------------------------ storage client
\* the last call was one of get_file_stat, open_stream and load_file
ReadDone == done.op \in {"get_file_stat", "open_stream", "load_file"}

\* C28: get_file_stat, open_stream and load_file return None when the store
\* raises S3Error, and pass any other exception on to the caller unchanged.
C28_S3ErrorIsAbsent ==
    ReadDone =>
        /\ done.fault = "S3Error" => (IsNone(done.raised) /\ IsNone(done.value))
        /\ done.fault \notin {"", "S3Error"} => done.raised = Some(done.fault)
        /\ done.fault = "" => IsNone(done.raised)

\* an exception that is no S3Error reached the caller of a read of an object
\* that is stored
C28_Witness ==
    /\ ReadDone
    /\ done.bucket = "images"
    /\ done.fault = "ValueError"
    /\ done.raised = Some("ValueError")

\* C29: put_file uploads the whole content whatever the read position of the
\* buffer on entry: the length passed to the store and the size of the
\* returned item are the total length of the buffer, the returned
\* parent_etag is the one supplied, and with reset_content the position of
\* the buffer is 0 after the call.
C29_PutFileWholeContent ==
    done.op = "put_file" =>
        /\ done.length = ByteLen(done.content.data)
        /\ done.item.size = ByteLen(done.content.data)
        /\ done.item.parent_etag = done.parent_etag
        /\ Val(store.objects[<<"thumbnail-small", FILE_NAME>>]).data = done.content.data
        /\ done.reset_content => done.after.pos = 0

\* a buffer left at its end was uploaded whole and rewound
C29_Witness ==
    /\ done.op = "put_file"
    /\ done.content.pos = ByteLen(done.content.data)
    /\ done.reset_content
    /\ done.length = ByteLen(done.content.data)
    /\ done.after.pos = 0
    /\ ~IsNone(done.parent_etag)

\* C30: try_create_bucket is idempotent: on a bucket that exists it returns
\* false and changes neither the buckets nor their rules; otherwise it makes
\* the bucket, with an expiration rule of life_time_days days if and only if
\* life_time_days > 0, and returns true; a second call with the same name
\* returns false.
C30_TryCreateBucketIdempotent ==
    /\ (done.op = "try_create_bucket" /\ ~done.raised) =>
           IF done.before[done.bucket].state = "present"
           THEN ~done.value /\ done.after = done.before
           ELSE /\ done.value
                /\ done.after = [done.before EXCEPT ![done.bucket] =
                       [state |-> "present",
                        rule |-> IF done.life_time_days > 0
                                 THEN Some(done.life_time_days) ELSE None]]
    /\ \A i \in 1 .. Len(hist) : \A j \in 1 .. Len(hist) :
           (i < j /\ hist[i].bucket = hist[j].bucket /\ ~hist[i].raised)
               => (~hist[j].raised /\ ~hist[j].value)

\* a bucket was made with a rule and a second call for it returned false
C30_Witness ==
    /\ Len(hist) = 2
    /\ hist[1].bucket = hist[2].bucket
    /\ hist[1].value
    /\ ~hist[2].value
    /\ done.op = "try_create_bucket"
    /\ done.after[done.bucket].rule = Some(30)

\* ------------------------------------------------- stat, then open_stream
\* the last request ended in _get_file_response after a call of open_stream,
\* and nobody wrote to the store since its response left
Opened ==
    /\ Responded
    /\ D.scan.status \in {"USE_SOURCE_FILE", "FILE_FOUND"}
    /\ Len(D.calls) > 0
    /\ D.calls[Len(D.calls)].op = "open_stream"
    /\ ~hist.changed

\* the object under the key that was served, as open_stream found it
OpenedObject == store[<<ServedItem(D.scan).bucket, ServedItem(D.scan).file_name>>]

\* C33: if the object being served disappears between the scan's stat and
\* open_stream, _get_file_response responds 404; otherwise its 200 carries the
\* Etag and the Content-Length of the stream that was opened, and that
\* stream as its body, also when the object was overwritten after the stat.
C33_HeadersOfOpenedStream ==
    Opened =>
        IF IsNone(OpenedObject)
        THEN Val(D.response) = NOT_FOUND_RESPONSE
        ELSE /\ StatusCode = 200
             /\ Val(D.response).etag = Some(Md5(Val(OpenedObject).data))
             /\ Val(D.response).content_length =
                    Some(Str(ByteLen(Val(OpenedObject).data)))
             /\ Val(D.response).stream = Some(Val(OpenedObject).data)

\* the object was overwritten after the stat: the 200 carries the new etag
\* and the new length, not those of the item the scan found
C33_Witness ==
    /\ Opened
    /\ O.dirty
    /\ StatusCode = 200
    /\ Val(D.response).etag # Some(ServedItem(D.scan).etag)
    /\ Val(D.response).content_length # Some(Str(ServedItem(D.scan).size))
    /\ Val(D.response).etag = Some(Md5(Val(OpenedObject).data))

\* the object disappeared after the stat and the response is the 404
ServedObjectDisappeared ==
    /\ Opened
    /\ O.dirty
    /\ IsNone(OpenedObject)
    /\ StatusCode = 404

\* -------------------------------------------------------------- image sizes
\* a string of one or more digits, with or without a sign
IsInteger(p) ==
    LET digits == IF Len(p) > 0 /\ p[1] = "-" THEN SubSeq(p, 2, Len(p)) ELSE p
    IN Len(digits) > 0 /\ \A i \in 1 .. Len(digits) : digits[i] \in Digits

\* exactly two integers separated by a single 'x'
TwoIntegers(source) ==
    \E k \in 1 .. Len(source) :
        /\ source[k] = "x"
        /\ \A j \in 1 .. Len(source) : source[j] = "x" => j = k
        /\ IsInteger(SubSeq(source, 1, k - 1))
        /\ IsInteger(SubSeq(source, k + 1, Len(source)))

\* C34: every ImageSize of a resolved configuration, given structurally or
\* parsed from a "{W}x{H}" string, has w > 0 and h > 0, and _parse_size
\* rejects every string that is not exactly two integers separated by a
\* single 'x'.
C34_PositiveWellFormedSize ==
    (done.op \in {"parse_size", "image_size"} /\ done.raised = "") =>
        /\ Val(done.value).w > 0
        /\ Val(done.value).h > 0
        /\ done.op = "parse_size" => TwoIntegers(done.source)

\* the two halves of C34 on their own: the sizes _parse_size returns are
\* positive; the strings it accepts are two integers around one 'x'
ParsedSizePositive ==
    (done.op = "parse_size" /\ done.raised = "") =>
        (Val(done.value).w > 0 /\ Val(done.value).h > 0)

ParsedSizeWellFormed ==
    (done.op = "parse_size" /\ done.raised = "") => TwoIntegers(done.source)

\* ---------------------------------------------------- derivative provenance
\* the last request stored a derivative
Stored == Responded /\ Len(PutCalls(D.calls)) > 0

\* the bytes load_file returned to the request, of which the derivative was made
LoadedData == Val(Val(O.loaded))

\* C35: every derivative stored by _create_thumbnail_and_upload with
\* parent_etag = e was resized from the bytes of the source version whose
\* etag is e, also when the source is overwritten between the scan's source
\* stat and load_file.
C35_DerivativeProvenance ==
    Stored =>
        /\ Val(D.thumbnail).data =
               ResizeImage(LoadedData, Val(D.scan.bucket_settings).size.w,
                           Val(D.scan.bucket_settings).size.h,
                           Val(D.scan.bucket_settings).format).data
        /\ PutCalls(D.calls)[1].parent_etag = Some(Md5(LoadedData))

\* ------------------------------------------------- what a request writes
\* the last request ended, with a response or with an exception
Ended == D.pc \in {"done", "raised"}

\* the key the request asked for
RequestedKey == <<D.bucket, FILE_NAME>>

\* C36: get_thumbnail writes to the store only on the CREATE_NEW path, at
\* most one put per request, to (requested bucket, requested object name)
\* and never to that bucket's configured source bucket; the BUCKET_NOT_FOUND,
\* SOURCE_FILE_NOT_FOUND, USE_SOURCE_FILE and FILE_FOUND paths leave the store
\* unchanged.
C36_WritesOnlyDerivative ==
    Ended =>
        /\ Len(PutCalls(D.calls)) <= 1
        /\ O.written \subseteq {RequestedKey}
        /\ \A i \in 1 .. Len(PutCalls(D.calls)) :
               /\ PutCalls(D.calls)[i].bucket = D.bucket
               /\ PutCalls(D.calls)[i].file_name = FILE_NAME
               /\ D.bucket # Val(D.scan.bucket_settings).source_bucket
        /\ D.scan.status # "CREATE_NEW" =>
               (O.written = {} /\ PutCalls(D.calls) = <<>>)
        /\ O.written # {} =>
               /\ D.scan.status = "CREATE_NEW"
               /\ Len(PutCalls(D.calls)) = 1
               /\ RequestedKey[1] # BucketsMap.buckets[D.bucket].source_bucket

\* a miss put its derivative under the requested key while another party
\* had overwritten the source: the source object is as that party left it
C36_Witness ==
    /\ Ended
    /\ D.scan.status = "CREATE_NEW"
    /\ O.dirty
    /\ O.written = {RequestedKey}
    /\ Len(PutCalls(D.calls)) = 1
    /\ ~hist.changed
    /\ store[<<BucketsMap.buckets[D.bucket].source_bucket, FILE_NAME>>] # SourceAtStart

\* --------------------------------------------------- aliases and sources
\* the buckets a request under the source bucket S may be served from: S
\* itself and the buckets configured with source_bucket = S
ServedUnder(source_bucket) ==
    {source_bucket}
      \cup {b \in DOMAIN AliasBucketsMap.buckets :
               AliasBucketsMap.buckets[b].source_bucket = source_bucket}

\* C37: get_thumbnail_by_alias(S, f, alias) only ever serves an object from
\* S itself or from a derived bucket whose configured source_bucket is S: an
\* alias that belongs to a bucket derived from a different source never
\* resolves under S.
C37_AliasStaysUnderSource ==
    (AliasDone /\ A.run.response.status_code \in {200, 304}) =>
        /\ \A i \in 1 .. Len(A.run.calls) :
               A.run.calls[i].bucket \in ServedUnder(A.source_bucket)
        /\ \A k \in DOMAIN Store0 :
               A.run.store[k] # Store0[k] => k[1] \in ServedUnder(A.source_bucket)

\* ---------------------------------------------------- conditional requests
\* C38: conditional requests are honoured on every path: whenever
\* get_thumbnail returns 200 with an Etag header, that Etag differs from the
\* request's If-None-Match value, also when the derivative had to be
\* re-materialized (CREATE_NEW) and the put yields the etag the client holds.
C38_ConditionalOnEveryPath ==
    (Responded /\ StatusCode = 200 /\ ~IsNone(Val(D.response).etag)) =>
        Val(D.response).etag # D.etag

\* the same on the paths that end in _get_file_response, when nobody wrote
\* to the store while the request was served
ConditionalWhenFound ==
    (/\ Responded /\ StatusCode = 200 /\ ~IsNone(Val(D.response).etag)
     /\ D.scan.status \in {"USE_SOURCE_FILE", "FILE_FOUND"} /\ ~O.dirty) =>
        Val(D.response).etag # D.etag

\* ------------------------------------------------- the fields of a scan
\* what the assertions of get_thumbnail test on the result of scan_file
AssertionsPass(scan) ==
    CASE scan.status = "USE_SOURCE_FILE" -> ~IsNone(scan.source_file_stat)
      [] scan.status = "FILE_FOUND" -> ~IsNone(scan.file_stat)
      [] scan.status = "CREATE_NEW" ->
             ~IsNone(scan.source_file_stat) /\ ~IsNone(scan.bucket_settings)
      [] OTHER -> TRUE

\* the fields the status of a ScanResult requires
FieldsOfStatus(scan) ==
    CASE scan.status = "USE_SOURCE_FILE" -> ~IsNone(scan.source_file_stat)
      [] scan.status = "FILE_FOUND" ->
             ~IsNone(scan.source_file_stat) /\ ~IsNone(scan.file_stat)
      [] scan.status = "CREATE_NEW" ->
             ~IsNone(scan.source_file_stat) /\ ~IsNone(scan.bucket_settings)
      [] OTHER -> TRUE

\* the requests whose scan has returned and was dispatched on
Dispatched == {r \in Requests : req[r].pc \in {"open_stream", "load_file", "put_file"}}

\* C39: every ScanResult returned by scan_file carries the fields its status
\* requires (USE_SOURCE_FILE: source_file_stat; FILE_FOUND: source_file_stat
\* and file_stat; CREATE_NEW: source_file_stat and bucket_settings), so none
\* of the assertions in get_thumbnail fails.
C39_ScanResultFields ==
    /\ \A r \in Dispatched :
           /\ FieldsOfStatus(req[r].scan)
           /\ AssertionsPass(req[r].scan)
           /\ req[r].scan.status \in {"USE_SOURCE_FILE", "FILE_FOUND", "CREATE_NEW"}
    /\ Ended =>
           /\ FieldsOfStatus(D.scan)
           /\ AssertionsPass(D.scan)
           /\ D.scan.status \in {"BUCKET_NOT_FOUND", "SOURCE_FILE_NOT_FOUND",
                                 "USE_SOURCE_FILE", "FILE_FOUND", "CREATE_NEW"}

\* a request passed the two assertions of the CREATE_NEW branch and put its
\* derivative, made with the settings the scan carried
C39_Witness ==
    /\ Responded
    /\ D.scan.status = "CREATE_NEW"
    /\ AssertionsPass(D.scan)
    /\ IsNone(D.scan.file_stat)
    /\ Val(D.scan.bucket_settings) = BucketsMap.buckets[D.bucket]
    /\ Val(D.scan.source_file_stat).bucket = BucketsMap.buckets[D.bucket].source_bucket
    /\ Len(PutCalls(D.calls)) = 1

\* ------------------------------------------------------ provisioning errors
\* the buckets on which the startup called try_create_bucket
Attempted == {obs.calls[i].bucket : i \in 1 .. Len(obs.calls)}

\* a call of try_create_bucket made by the startup raised
SomeCallRaised == \E b \in Attempted : obs.store0[b].state = "failing"

\* the entries of a result dict are error exactly on the buckets that raised
ErrorOnlyWhereRaised(statuses) ==
    \A b \in DOMAIN statuses :
        statuses[b] = BucketStatus.error <=> obs.store0[b].state = "failing"

\* C32: provisioning isolates failures: an exception from try_create_bucket
\* for one bucket is recorded as status error for that bucket only,
\* create_buckets still attempts every other configured bucket and source
\* bucket, and create_buckets itself returns its result instead of raising.
C32_FailuresIsolated ==
    (Booted /\ SomeCallRaised) =>
        /\ ~IsNone(obs.info)
        /\ Attempted = SettingsBuckets(env)
        /\ DOMAIN Info.thumbnail_buckets \cup DOMAIN Info.source_buckets = Attempted
        /\ ErrorOnlyWhereRaised(Info.thumbnail_buckets)
        /\ ErrorOnlyWhereRaised(Info.source_buckets)
        /\ \A b \in Attempted :
               obs.store0[b].state = "missing" => store[b].state = "present"

\* the first bucket attempted raised and a later one was created all the same
C32_Witness ==
    /\ Booted
    /\ Len(obs.calls) >= 2
    /\ obs.store0[obs.calls[1].bucket].state = "failing"
    /\ \E b \in DOMAIN Info.thumbnail_buckets :
           /\ Info.thumbnail_buckets[b] = BucketStatus.created
           /\ store[b].state = "present"
    /\ \E b \in DOMAIN Info.source_buckets :
           Info.source_buckets[b] = BucketStatus.error

\* -------------------------------------------------- concurrent provisioners
\* C31: a bucket that already exists is never reported as error: under
\* concurrent provisioners with an otherwise healthy store, also when another
\* provisioner creates the bucket between the bucket_exists check and
\* make_bucket, every status recorded for a bucket is created or exists.
C31_ExistingBucketNeverError ==
    \A w \in Provisioners : \A i \in 1 .. Len(obs[w]) :
        obs[w][i] \in {BucketStatus.created, BucketStatus.exists}

====
